---- MODULE Spec2Model ----
(***************************************************************************)
(* A model of vscode-test-cli: the launcher (run-tests.ts), the in-host    *)
(* test executor (mocha-tests.ts) and the in-host coverage wrapper         *)
(* (nyc-coverage.ts).                                                      *)
(*                                                                         *)
(* Spec      the launcher: runTestsFromCommandLine -> runVSCodeTests ->     *)
(*           installExtensions, with the file system, the extension        *)
(*           manager CLI and the host run as the environment.              *)
(* SpecMocha the in-host test executor run().                              *)
(* SpecNyc   the in-host coverage wrapper run().                           *)
(***************************************************************************)
EXTENDS Integers, Sequences, FiniteSets, TLC

VARIABLES
    \* ---- launcher (run-tests.ts)
    pc,                     \* position of the command-line run
    config,                 \* the ResolvedConfiguration handed to runVSCodeTests
    wsFile,                 \* content of the file at config.workspacePath
    wsFileBefore,           \* its content before the run (history)
    hostExtensions,         \* extension ids installed in the host
    calls,                  \* every call made to a collaborator, in order (history)
    vscodeExecutablePath,   \* local of runVSCodeTests
    workspaceFileToDelete,  \* local of runVSCodeTests
    uninstallArgs,          \* local of installExtensions
    installArgs,            \* local of installExtensions
    thrown,                 \* the exception in flight, if any
    hostState,              \* the host process started by runTests
    logged,                 \* what console.error received in the cleanup step
    result,                 \* how runVSCodeTests settled
    exitCode,               \* the code given to process.exit
    \* ---- in-host test executor (mocha-tests.ts)
    mpc,                    \* position of run()
    menv,                   \* process.env: the two keys run() reads
    mcache,                 \* the configuration object require(configPath) returns
    mglob,                  \* what glob will answer
    mocharun,               \* what mocha.run will do
    mlog,                   \* modules loaded, runner calls, in order (history)
    mctor,                  \* the options the Mocha constructor received
    mpattern,               \* local of run(): the glob pattern
    mresult,                \* how run() settled
    mfirst,                 \* what an earlier run() in this process observed (history)
    \* ---- in-host coverage wrapper (nyc-coverage.ts)
    npc,                    \* position of run()
    nenv,                   \* process.env: the three keys run() reads
    nmodule,                \* what require(baseRunPath) gives
    nconfig,                \* the configuration object require(nycConfigPath) returns
    ndelegate,              \* what the delegate's run will do
    nfail,                  \* the call of the instrumentation engine that fails, if any
    nsteps,                 \* calls to the engine and to the delegate, in order (history)
    nwritten,               \* the coverage files written
    nthrown,                \* the exception in flight, if any
    nresult,                \* how run() settled
    \* ---- configuration resolver (run-tests.ts, validateAndResolveConfiguration)
    rpc,                    \* position of validateAndResolveConfiguration
    rraw,                   \* the configuration object read from the configuration file
    rcoverage,              \* isCoverage
    rfs,                    \* what is on disk at the resolved workspace path
    rresult,                \* the error thrown, or the resolved configuration
    \* ---- launch plan of runVSCodeTests (run-tests.ts)
    lpc,                    \* position in the launch plan
    lcoverage,              \* isCoverage
    lplatform,              \* process.platform
    lconfig,                \* the resolved configuration
    loptions                \* the options runTests received

launcherVars == <<pc, config, wsFile, wsFileBefore, hostExtensions, calls,
                  vscodeExecutablePath, workspaceFileToDelete, uninstallArgs,
                  installArgs, thrown, hostState, logged, result, exitCode>>
mochaVars ==
    <<mpc, menv, mcache, mglob, mocharun, mlog, mctor, mpattern, mresult, mfirst>>
nycVars == <<npc, nenv, nmodule, nconfig, ndelegate, nfail, nsteps, nwritten, nthrown,
            nresult>>
resolverVars == <<rpc, rraw, rcoverage, rfs, rresult>>
launchVars == <<lpc, lcoverage, lplatform, lconfig, loptions>>
vars == <<launcherVars, mochaVars, nycVars, resolverVars, launchVars>>

-----------------------------------------------------------------------------
(* Optional values: undefined is the empty tuple, a defined v is <<v>>.    *)
Undefined == <<>>
Some(v) == <<v>>
IsDefined(o) == o # <<>>
Val(o) == o[1]

(* String helpers, as String.prototype.endsWith / includes compute them.   *)
EndsWith(s, suffix) ==
    /\ Len(s) >= Len(suffix)
    /\ SubSeq(s, Len(s) - Len(suffix) + 1, Len(s)) = suffix

Includes(s, sub) ==
    \E i \in 1..(Len(s) - Len(sub) + 1) : SubSeq(s, i, i + Len(sub) - 1) = sub

(* path.join of a folder and an entry of its listing.                      *)
Join(folder, entry) == folder \o "/" \o entry

(* path.dirname of the workspace path of the model.                        *)
Dirname(path) == IF path = "/proj/test.code-workspace" THEN "/proj" ELSE "/"

-----------------------------------------------------------------------------
(* Bounds of the model.                                                    *)
MaxFolders == 2
MaxUninstallIDs == 2
MaxFailures == 2


-----------------------------------------------------------------------------
(* The environment of the launcher: the folders that hold extension        *)
(* packages, their listings (fs.readdir order), and the extension id each  *)
(* package installs.                                                       *)
ExtensionFolders == {"/ext/one", "/ext/two", "/ext/novsix", "/ext/missing"}

PathExists(path) == path # "/ext/missing"

Readdir(path) ==
    CASE path = "/ext/one" -> <<"a.vsix", "readme.md">>
      [] path = "/ext/two" -> <<"b.vsix", "c.vsix">>
      [] path = "/ext/novsix" -> <<"notes.txt", "vsix">>
      [] OTHER -> <<>>

ExtensionIdOf(vsixPath) ==
    CASE vsixPath = "/ext/one/a.vsix" -> "pub.a"
      [] vsixPath = "/ext/two/b.vsix" -> "pub.b"
      [] vsixPath = "/ext/two/c.vsix" -> "pub.c"
      [] OTHER -> "pub.unknown"

SeqsUpTo(S, n) == UNION {[1..k -> S] : k \in 0..n}

WorkspacePath == "/proj/test.code-workspace"
Absent == "<absent>"
EmptyWorkspace == "{\"folders\":[]}"
OtherContent == "{\"prop1\":\"value1\"}"
Partial == ""

(* The resolved configurations runVSCodeTests is run with.                 *)
UninstallChoices ==
    {Undefined} \cup {Some(ids) : ids \in SeqsUpTo({"pub.a", "pub.z"}, MaxUninstallIDs)}

FolderChoices ==
    {Undefined} \cup {Some(fs) : fs \in SeqsUpTo(ExtensionFolders, MaxFolders)}

Configurations ==
    [workspacePath : {WorkspacePath},
     initWorkspace : BOOLEAN,
     userDataDir : {Undefined, Some("/proj/userData")},
     uninstallExtensionIDs : UninstallChoices,
     additionalExtensionFolders : FolderChoices]

-----------------------------------------------------------------------------
(* Outcomes of the collaborators.                                          *)
Str(text) == [kind |-> "string", text |-> text]
Null == [kind |-> "null", text |-> ""]

TransientStderr ==
    "Installing extensions...\nPlease restart VS Code before reinstalling MyExtension.\nFailed Installing Extensions: /the/extensions/path.vsix"

(* spawnSync of the install command with piped output: what the extension  *)
(* manager did and the stderr text captured. A command that cannot be      *)
(* spawned returns an error object and a null stderr.                      *)
InstallOutcomes ==
    { [kind |-> "ok", stderr |-> Str("")],
      [kind |-> "ok", stderr |-> Str("Please restart VS Code to load the extension.")],
      [kind |-> "transient", stderr |-> Str(TransientStderr)],
      [kind |-> "failed", stderr |-> Str("Failed Installing Extensions: corrupt zip")],
      [kind |-> "failed", stderr |-> Str("")],
      [kind |-> "spawnError", stderr |-> Null] }

(* spawnSync with inherited output (uninstall, retried install).           *)
InheritOutcomes == {"ok", "failed", "spawnError"}

IsFailure(kind) == kind \in {"failed", "spawnError", "transient"}

-----------------------------------------------------------------------------
(* installExtensions: the argument lists.                                  *)
USER_DATA_DIR_PARAM == "--user-data-dir"

RECURSIVE FlagEach(_, _)
FlagEach(flag, values) ==
    IF values = <<>> THEN <<>>
    ELSE <<flag, Head(values)>> \o FlagEach(flag, Tail(values))

IsVsixAnywhere(fileName) == Includes(fileName, "vsix")

IsVsix(fileName) == EndsWith(fileName, ".vsix")

VsixFiles(folder) == SelectSeq(Readdir(folder), IsVsix)

RECURSIVE JoinEach(_, _)
JoinEach(folder, entries) ==
    IF entries = <<>> THEN <<>>
    ELSE <<Join(folder, Head(entries))>> \o JoinEach(folder, Tail(entries))

(* getInstallArgsFromInstallationFolders: the arguments collected so far,   *)
(* or the error thrown at the first folder that is missing or holds no     *)
(* package.                                                                *)
RECURSIVE GetInstallArgsFromInstallationFolders(_)
GetInstallArgsFromInstallationFolders(folders) ==
    IF folders = <<>> THEN [error |-> Undefined, args |-> <<>>]
    ELSE LET vsixFolder == Head(folders)
         IN IF ~PathExists(vsixFolder)
            THEN [error |-> Some("Folder " \o vsixFolder \o
                                 " which contains *.vsix dependencies does not exist"),
                  args |-> <<>>]
            ELSE IF VsixFiles(vsixFolder) = <<>>
            THEN [error |-> Some("Could not find *.vsix files in " \o vsixFolder),
                  args |-> <<>>]
            ELSE LET rest == GetInstallArgsFromInstallationFolders(Tail(folders))
                 IN IF IsDefined(rest.error) THEN rest
                    ELSE [error |-> Undefined,
                          args |-> FlagEach("--install-extension",
                                            JoinEach(vsixFolder, VsixFiles(vsixFolder)))
                                   \o rest.args]

OrEmpty(optionalList) == IF IsDefined(optionalList) THEN Val(optionalList) ELSE <<>>

(* The early return taken only when both lists are absent.                  *)
NothingToDoAbsentOnly(uninstallExtensionIDs, installExtensionFolders) ==
    uninstallExtensionIDs = Undefined /\ installExtensionFolders = Undefined

(* installExtensions returns at once when there is nothing to do.          *)
NothingToDo(uninstallExtensionIDs, installExtensionFolders) ==
    /\ OrEmpty(installExtensionFolders) = <<>>
    /\ OrEmpty(uninstallExtensionIDs) = <<>>

(* The user data directory placed before "--force".                         *)
WithUserDataDirBeforeForce(args, userDataDir) ==
    args \o
    (IF IsDefined(userDataDir) THEN <<USER_DATA_DIR_PARAM, Val(userDataDir)>> ELSE <<>>)
    \o <<"--force">>

(* installExtensions: "--force" and the user data directory close both      *)
(* argument lists.                                                          *)
WithForceAndUserDataDir(args, userDataDir) ==
    args \o <<"--force">> \o
    (IF IsDefined(userDataDir) THEN <<USER_DATA_DIR_PARAM, Val(userDataDir)>> ELSE <<>>)

ResolveCliPathFromVSCodeExecutablePath(path) ==
    IF path = "vscode-path" THEN "vscode-cli-path" ELSE path

(* The retry condition on the captured stderr of the first install.        *)
ShouldRetryOnFailedOnly(stderr) ==
    /\ stderr.kind = "string"
    /\ Includes(stderr.text, "Failed")

ShouldRetry(stderr) ==
    /\ stderr.kind = "string"
    /\ Includes(stderr.text, "Failed")
    /\ Includes(stderr.text, "restart")

(* Reading .includes of a null stderr throws a TypeError.                   *)
StderrThrows(stderr) == stderr.kind = "null"

TypeErrorNullIncludes == "TypeError: Cannot read property 'includes' of null"

(* The extension ids the packages of an install argument list install.     *)
PackagesOf(args) ==
    {args[i + 1] : i \in {j \in 1..(Len(args) - 1) : args[j] = "--install-extension"}}

IdsOf(args) == {ExtensionIdOf(p) : p \in PackagesOf(args)}

Range(seq) == {seq[i] : i \in 1..Len(seq)}

SpawnSync(purpose, cliPath, args, stdio, kind, stderr) ==
    [fn |-> "spawnSync", purpose |-> purpose, cli |-> cliPath, args |-> args,
     stdio |-> stdio, kind |-> kind, stderr |-> stderr, error |-> Undefined]

-----------------------------------------------------------------------------
(* The order of the awaited steps in the try block of runVSCodeTests, and   *)
(* of the two subprocess stages of installExtensions.                       *)
RunStepsWorkspaceFirst ==
    <<"download", "initWorkspace", "installExtensions", "runTests">>

RunSteps == <<"download", "installExtensions", "initWorkspace", "runTests">>

ProvisionStepsInstallFirst == <<"install", "uninstall">>

ProvisionSteps == <<"uninstall", "install">>

IndexOf(seq, x) == CHOOSE i \in 1..Len(seq) : seq[i] = x

(* Where control goes when a step of the try block completes normally.      *)
AfterStep(step) ==
    IF IndexOf(RunSteps, step) = Len(RunSteps) THEN "finally"
    ELSE RunSteps[IndexOf(RunSteps, step) + 1]

(* Where control goes when a stage of installExtensions completes.          *)
AfterProvision(stage) ==
    IF IndexOf(ProvisionSteps, stage) = Len(ProvisionSteps)
    THEN AfterStep("installExtensions")
    ELSE ProvisionSteps[IndexOf(ProvisionSteps, stage) + 1]

(* The guards of the two stages.                                            *)
UninstallNeeded(uninstallExtensionIDsArray) == Len(uninstallExtensionIDsArray) > 0

InstallNeeded(installExtensionFoldersArray) == Len(installExtensionFoldersArray) > 0

(* The cleanup step: what is deleted, and what the run settles with when    *)
(* the deletion fails.                                                      *)
NeedsCleanupOnSuccessOnly(fileToDelete) ==
    fileToDelete # Undefined /\ thrown = Undefined

NeedsCleanup(fileToDelete) == fileToDelete # Undefined

AfterCleanupUnlinkErrorEscapes(inFlight, unlinkError) ==
    IF IsDefined(unlinkError) THEN unlinkError ELSE inFlight

AfterCleanup(inFlight, unlinkError) == inFlight

(* The workspace file written whatever the configuration says.             *)
ShouldInitWorkspaceAlways(resolved) == TRUE

(* runVSCodeTests: if (config.initWorkspace)                                *)
ShouldInitWorkspace(resolved) == resolved.initWorkspace

(* The document written to the workspace file.                              *)
WrittenContent == EmptyWorkspace

-----------------------------------------------------------------------------
(* The launcher.                                                           *)
Call(fn, arg, error) == [fn |-> fn, arg |-> arg, error |-> error]

InitLauncher ==
    /\ pc = "readConfiguration"
    /\ config \in Configurations
    /\ wsFile \in {Absent, OtherContent}
    /\ wsFileBefore = wsFile
    /\ hostExtensions \in {{}, {"pub.a"}}
    /\ calls = <<>>
    /\ vscodeExecutablePath = Undefined
    /\ workspaceFileToDelete = Undefined
    /\ uninstallArgs = <<>>
    /\ installArgs = <<>>
    /\ thrown = Undefined
    /\ hostState = "notStarted"
    /\ logged = <<>>
    /\ result = "pending"
    /\ exitCode = Undefined

(* What readConfiguration and validateAndResolveConfiguration throw.        *)
ConfigurationErrors ==
    {"No configuration file found. Use --config option to specify the configuration file path.",
     "Configuration error: userDataDir must be a string"}

(* runTestsFromCommandLineInner up to the call of runVSCodeTests: reading   *)
(* and resolving the configuration succeeds or throws.                      *)
ReadConfiguration ==
    /\ pc = "readConfiguration"
    /\ \E outcome \in {Undefined} \cup {Some(e) : e \in ConfigurationErrors} :
         IF outcome = Undefined
         THEN /\ pc' = RunSteps[1]
              /\ UNCHANGED thrown
         ELSE /\ pc' = "exit"
              /\ thrown' = outcome
    /\ UNCHANGED <<config, wsFile, wsFileBefore, hostExtensions, calls,
                   vscodeExecutablePath, workspaceFileToDelete, uninstallArgs,
                   installArgs, hostState, logged, result, exitCode>>
    /\ UNCHANGED <<mochaVars, nycVars, resolverVars, launchVars>>

(* runVSCodeTests: await downloadAndUnzipVSCode(config.vscodeVersion).      *)
DownloadAndUnzipVSCode ==
    /\ pc = "download"
    /\ \E ok \in BOOLEAN :
         IF ok
         THEN /\ vscodeExecutablePath' = Some("vscode-path")
              /\ calls' = Append(calls, Call("downloadAndUnzipVSCode", "", Undefined))
              /\ pc' = AfterStep("download")
              /\ UNCHANGED thrown
         ELSE /\ calls' = Append(calls, Call("downloadAndUnzipVSCode", "",
                                            Some("Failed to download VS Code")))
              /\ thrown' = Some("Failed to download VS Code")
              /\ pc' = "finally"
              /\ UNCHANGED vscodeExecutablePath
    /\ UNCHANGED <<config, wsFile, wsFileBefore, hostExtensions,
                   workspaceFileToDelete, uninstallArgs, installArgs, hostState,
                   logged, result, exitCode>>
    /\ UNCHANGED <<mochaVars, nycVars, resolverVars, launchVars>>

(* installExtensions up to the first subprocess: the early return, the      *)
(* argument lists, the scan of the install folders.                         *)
InstallExtensions ==
    /\ pc = "installExtensions"
    /\ IF NothingToDo(config.uninstallExtensionIDs, config.additionalExtensionFolders)
       THEN /\ pc' = AfterStep("installExtensions")
            /\ UNCHANGED <<uninstallArgs, installArgs, thrown, calls>>
       ELSE LET found == GetInstallArgsFromInstallationFolders(
                             OrEmpty(config.additionalExtensionFolders))
            IN IF IsDefined(found.error)
               THEN /\ thrown' = found.error
                    /\ calls' = Append(calls, Call("getInstallArgsFromInstallationFolders",
                                                   "", found.error))
                    /\ pc' = "finally"
                    /\ UNCHANGED <<uninstallArgs, installArgs>>
               ELSE /\ calls' = Append(calls, Call("getInstallArgsFromInstallationFolders",
                                                   "", Undefined))
                    /\ installArgs' =
                          WithForceAndUserDataDir(found.args, config.userDataDir)
                    /\ uninstallArgs' =
                          WithForceAndUserDataDir(
                              FlagEach("--uninstall-extension",
                                       OrEmpty(config.uninstallExtensionIDs)),
                              config.userDataDir)
                    /\ pc' = ProvisionSteps[1]
                    /\ UNCHANGED thrown
    /\ UNCHANGED <<config, wsFile, wsFileBefore, hostExtensions,
                   vscodeExecutablePath, workspaceFileToDelete, hostState,
                   logged, result, exitCode>>
    /\ UNCHANGED <<mochaVars, nycVars, resolverVars, launchVars>>


CliPath == ResolveCliPathFromVSCodeExecutablePath(Val(vscodeExecutablePath))

(* installExtensions: spawnSync of "code --uninstall-extension ...", its    *)
(* result ignored.                                                          *)
Uninstall ==
    /\ pc = "uninstall"
    /\ IF UninstallNeeded(OrEmpty(config.uninstallExtensionIDs))
       THEN \E kind \in InheritOutcomes :
              /\ calls' = Append(calls, SpawnSync("uninstall", CliPath, uninstallArgs,
                                                  "inherit", kind, Null))
              /\ hostExtensions' =
                    IF kind = "ok"
                    THEN hostExtensions \ Range(OrEmpty(config.uninstallExtensionIDs))
                    ELSE hostExtensions
       ELSE UNCHANGED <<calls, hostExtensions>>
    /\ pc' = AfterProvision("uninstall")
    /\ UNCHANGED <<config, wsFile, wsFileBefore, vscodeExecutablePath,
                   workspaceFileToDelete, uninstallArgs, installArgs, thrown,
                   hostState, logged, result, exitCode>>
    /\ UNCHANGED <<mochaVars, nycVars, resolverVars, launchVars>>

(* installExtensions: spawnSync of "code --install-extension ..." with      *)
(* piped output, then the test of the captured stderr.                      *)
Install ==
    /\ pc = "install"
    /\ IF InstallNeeded(OrEmpty(config.additionalExtensionFolders))
       THEN \E outcome \in InstallOutcomes :
              /\ calls' =
                    Append(calls, SpawnSync("install", CliPath, installArgs, "pipe",
                                            outcome.kind, outcome.stderr))
                    \o (IF StderrThrows(outcome.stderr)
                        THEN <<Call("includes", "stderr", Some(TypeErrorNullIncludes))>>
                        ELSE <<>>)
              /\ hostExtensions' =
                    IF outcome.kind = "ok" THEN hostExtensions \cup IdsOf(installArgs)
                    ELSE hostExtensions
              /\ IF StderrThrows(outcome.stderr)
                 THEN /\ thrown' = Some(TypeErrorNullIncludes)
                      /\ pc' = "finally"
                 ELSE /\ pc' = IF ShouldRetry(outcome.stderr) THEN "retry"
                               ELSE AfterProvision("install")
                      /\ UNCHANGED thrown
       ELSE /\ pc' = AfterProvision("install")
            /\ UNCHANGED <<calls, hostExtensions, thrown>>
    /\ UNCHANGED <<config, wsFile, wsFileBefore, vscodeExecutablePath,
                   workspaceFileToDelete, uninstallArgs, installArgs, hostState,
                   logged, result, exitCode>>
    /\ UNCHANGED <<mochaVars, nycVars, resolverVars, launchVars>>

(* installExtensions: the retried install, output inherited, result         *)
(* ignored.                                                                 *)
RetryInstall ==
    /\ pc = "retry"
    /\ \E kind \in InheritOutcomes :
         /\ calls' = Append(calls, SpawnSync("retry", CliPath, installArgs,
                                             "inherit", kind, Null))
         /\ hostExtensions' =
               IF kind = "ok" THEN hostExtensions \cup IdsOf(installArgs)
               ELSE hostExtensions
    /\ pc' = AfterProvision("install")
    /\ UNCHANGED <<config, wsFile, wsFileBefore, vscodeExecutablePath,
                   workspaceFileToDelete, uninstallArgs, installArgs, thrown,
                   hostState, logged, result, exitCode>>
    /\ UNCHANGED <<mochaVars, nycVars, resolverVars, launchVars>>

(* runVSCodeTests: if (config.initWorkspace) await mkdirs(dirname(path)).    *)
InitWorkspace ==
    /\ pc = "initWorkspace"
    /\ IF ShouldInitWorkspace(config)
       THEN \E ok \in BOOLEAN :
              IF ok
              THEN /\ calls' = Append(calls, Call("mkdirs", Dirname(config.workspacePath),
                                                 Undefined))
                   /\ pc' = "writeJson"
                   /\ UNCHANGED thrown
              ELSE /\ calls' = Append(calls, Call("mkdirs", Dirname(config.workspacePath),
                                                 Some("EACCES: permission denied, mkdir")))
                   /\ thrown' = Some("EACCES: permission denied, mkdir")
                   /\ pc' = "finally"
       ELSE /\ pc' = AfterStep("initWorkspace")
            /\ UNCHANGED <<calls, thrown>>
    /\ UNCHANGED <<config, wsFile, wsFileBefore, hostExtensions,
                   vscodeExecutablePath, workspaceFileToDelete, uninstallArgs,
                   installArgs, hostState, logged, result, exitCode>>
    /\ UNCHANGED <<mochaVars, nycVars, resolverVars, launchVars>>

(* runVSCodeTests: await writeJson(path, {folders: []}), then remember the  *)
(* path. A failed write leaves the file as it was or partly written.        *)
WriteJson ==
    /\ pc = "writeJson"
    /\ \E ok \in BOOLEAN :
         IF ok
         THEN /\ wsFile' = WrittenContent
              /\ calls' = Append(calls, Call("writeJson", config.workspacePath, Undefined))
              /\ workspaceFileToDelete' = Some(config.workspacePath)
              /\ pc' = AfterStep("initWorkspace")
              /\ UNCHANGED thrown
         ELSE /\ wsFile' \in {wsFile, Partial}
              /\ calls' = Append(calls, Call("writeJson", config.workspacePath,
                                            Some("ENOSPC: no space left on device, write")))
              /\ thrown' = Some("ENOSPC: no space left on device, write")
              /\ pc' = "finally"
              /\ UNCHANGED workspaceFileToDelete
    /\ UNCHANGED <<config, wsFileBefore, hostExtensions, vscodeExecutablePath,
                   uninstallArgs, installArgs, hostState, logged, result, exitCode>>
    /\ UNCHANGED <<mochaVars, nycVars, resolverVars, launchVars>>

(* runVSCodeTests: runTests(...) starts the host process; the call records  *)
(* the workspace file the host finds.                                       *)
RunTestsStart ==
    /\ pc = "runTests"
    /\ hostState' = "running"
    /\ calls' = Append(calls, Call("runTests", wsFile, Undefined))
    /\ pc' = "hostRunning"
    /\ UNCHANGED <<config, wsFile, wsFileBefore, hostExtensions,
                   vscodeExecutablePath, workspaceFileToDelete, uninstallArgs,
                   installArgs, thrown, logged, result, exitCode>>
    /\ UNCHANGED <<mochaVars, nycVars, resolverVars, launchVars>>

(* runVSCodeTests: the awaited host run resolves or rejects.                *)
RunTestsEnd ==
    /\ pc = "hostRunning"
    /\ \E ok \in BOOLEAN :
         IF ok
         THEN /\ hostState' = "exitedOk"
              /\ calls' = Append(calls, Call("runTestsSettled", "", Undefined))
              /\ pc' = AfterStep("runTests")
              /\ UNCHANGED thrown
         ELSE /\ hostState' = "exitedFailed"
              /\ calls' = Append(calls, Call("runTestsSettled", "", Some("Failed")))
              /\ thrown' = Some("Failed")
              /\ pc' = "finally"
    /\ UNCHANGED <<config, wsFile, wsFileBefore, hostExtensions,
                   vscodeExecutablePath, workspaceFileToDelete, uninstallArgs,
                   installArgs, logged, result, exitCode>>
    /\ UNCHANGED <<mochaVars, nycVars, resolverVars, launchVars>>

UnlinkError == "EPERM: operation not permitted, unlink"

(* runVSCodeTests: the finally block, and the settling of the promise.      *)
Finally ==
    /\ pc = "finally"
    /\ IF NeedsCleanup(workspaceFileToDelete)
       THEN \E ok \in BOOLEAN :
              IF ok
              THEN /\ wsFile' = Absent
                   /\ calls' = Append(calls, Call("unlink", Val(workspaceFileToDelete), Undefined))
                   /\ thrown' = AfterCleanup(thrown, Undefined)
                   /\ UNCHANGED logged
              ELSE /\ calls' = Append(calls, Call("unlink", Val(workspaceFileToDelete),
                                                 Some(UnlinkError)))
                   /\ logged' = Append(logged, "Could not delete workspace file at path")
                   /\ thrown' = AfterCleanup(thrown, Some(UnlinkError))
                   /\ UNCHANGED wsFile
       ELSE UNCHANGED <<wsFile, calls, logged, thrown>>
    /\ result' = IF IsDefined(thrown') THEN "rejected" ELSE "resolved"
    /\ pc' = "exit"
    /\ UNCHANGED <<config, wsFileBefore, hostExtensions, vscodeExecutablePath,
                   workspaceFileToDelete, uninstallArgs, installArgs, hostState,
                   exitCode>>
    /\ UNCHANGED <<mochaVars, nycVars, resolverVars, launchVars>>

(* The exit code that forgets the catch block.                              *)
ExitCodeZero(failure) == 0

(* runTestsFromCommandLine: the catch and the finally with process.exit.    *)
ExitCodeFor(failure) == IF IsDefined(failure) THEN 1 ELSE 0

ProcessExit ==
    /\ pc = "exit"
    /\ exitCode' = Some(ExitCodeFor(thrown))
    /\ pc' = "exited"
    /\ UNCHANGED <<config, wsFile, wsFileBefore, hostExtensions, calls,
                   vscodeExecutablePath, workspaceFileToDelete, uninstallArgs,
                   installArgs, thrown, hostState, logged, result>>
    /\ UNCHANGED <<mochaVars, nycVars, resolverVars, launchVars>>

(* The in-host components when they are not the ones running.              *)
IdleMocha ==
    /\ mpc = "idle" /\ menv = <<>> /\ mcache = <<>> /\ mglob = <<>>
    /\ mocharun = <<>> /\ mlog = <<>> /\ mctor = <<>> /\ mpattern = <<>>
    /\ mresult = <<>> /\ mfirst = <<>>

IdleNyc ==
    /\ npc = "idle" /\ nenv = <<>> /\ nmodule = <<>> /\ nconfig = <<>>
    /\ ndelegate = <<>> /\ nfail = <<>> /\ nsteps = <<>> /\ nwritten = {}
    /\ nthrown = <<>> /\ nresult = <<>>

IdleResolver ==
    /\ rpc = "idle" /\ rraw = <<>> /\ rcoverage = FALSE /\ rfs = "none"
    /\ rresult = <<>>

IdleLaunch ==
    /\ lpc = "idle" /\ lcoverage = FALSE /\ lplatform = "" /\ lconfig = <<>>
    /\ loptions = <<>>

Init == InitLauncher /\ IdleMocha /\ IdleNyc /\ IdleResolver /\ IdleLaunch

Next ==
    \/ ReadConfiguration
    \/ DownloadAndUnzipVSCode
    \/ InstallExtensions
    \/ Uninstall
    \/ Install
    \/ RetryInstall
    \/ InitWorkspace
    \/ WriteJson
    \/ RunTestsStart
    \/ RunTestsEnd
    \/ Finally
    \/ ProcessExit

Spec == Init /\ [][Next]_vars

(* runTestsFromCommandLine with its continuations scheduled: every awaited  *)
(* promise settles and the event loop runs what waits for it. The           *)
(* configurations are those with at most one install folder and one         *)
(* extension to uninstall.                                                  *)
CommandLineInit ==
    /\ Init
    /\ Len(OrEmpty(config.additionalExtensionFolders)) <= 1
    /\ Len(OrEmpty(config.uninstallExtensionIDs)) <= 1

SpecCommandLine == CommandLineInit /\ [][Next]_vars /\ WF_vars(Next)

-----------------------------------------------------------------------------
(* The in-host test executor (mocha-tests.ts).                             *)
(* JavaScript values of a configuration file.                              *)
JsString(text) == [type |-> "string", s |-> text]
JsNumber(n) == [type |-> "number", n |-> n]
JsBoolean(b) == [type |-> "boolean", b |-> b]
JsArray(items) == [type |-> "array", items |-> items]
JsUndefined == [type |-> "undefined"]

(* The string a value becomes when concatenated to a message.              *)
RECURSIVE Decimal(_)
Decimal(n) ==
    IF n < 10 THEN SubSeq("0123456789", n + 1, n + 1)
    ELSE Decimal(n \div 10) \o SubSeq("0123456789", (n % 10) + 1, (n % 10) + 1)

Show(value) ==
    CASE value.type = "string" -> value.s
      [] value.type = "number" -> Decimal(value.n)
      [] value.type = "boolean" -> (IF value.b THEN "true" ELSE "false")
      [] value.type = "array" -> "[array]"
      [] OTHER -> "undefined"

(* A configuration object: a function from the keys it has to values.      *)
Get(object, key) == IF key \in DOMAIN object THEN object[key] ELSE JsUndefined
Delete(object, key) == [k \in (DOMAIN object) \ {key} |-> object[k]]

ENV_VAR_MOCHA_CWD == "VSCODE_TEST_CLI_MOCHA_CWD"
ENV_VAR_MOCHA_CONFIG_PATH == "VSCODE_TEST_CLI_MOCHA_CONFIG_PATH"

MochaEnvError ==
    "The following environment variables must be defined for mocha tests: "
    \o ENV_VAR_MOCHA_CWD \o ", " \o ENV_VAR_MOCHA_CONFIG_PATH

(* The modules require() can load in the host.                             *)
LoadableModules == {"ts-node/register", "./setup"}

(* handleSpec without its delete.                                           *)
HandleSpecKeepsKey(mochaConfig) ==
    LET spec == Get(mochaConfig, "spec")
    IN IF spec.type # "string"
       THEN [error |-> Some("spec property in Mocha configuration must be a string. Unexpected value: "
                            \o Show(spec)),
             pattern |-> Undefined, config |-> mochaConfig]
       ELSE [error |-> Undefined, pattern |-> Some(spec.s), config |-> mochaConfig]

(* handleSpec: the pattern, or the error thrown; the key is deleted only    *)
(* when the value is a string.                                              *)
HandleSpec(mochaConfig) ==
    LET spec == Get(mochaConfig, "spec")
    IN IF spec.type # "string"
       THEN [error |-> Some("spec property in Mocha configuration must be a string. Unexpected value: "
                            \o Show(spec)),
             pattern |-> Undefined, config |-> mochaConfig]
       ELSE [error |-> Undefined, pattern |-> Some(spec.s),
             config |-> Delete(mochaConfig, "spec")]

(* The loop of handleRequire: the modules loaded before the first entry     *)
(* that is no string or cannot be loaded.                                   *)
RECURSIVE RequireEach(_)
RequireEach(modules) ==
    IF modules = <<>> THEN [error |-> Undefined, loaded |-> <<>>]
    ELSE LET module == Head(modules)
         IN IF module.type # "string"
            THEN [error |-> Some("require property in Mocha configuration must be a string or array of strings. Unexpected value: "
                                 \o Show(module)),
                  loaded |-> <<>>]
            ELSE IF module.s \notin LoadableModules
            THEN [error |-> Some("Cannot find module '" \o module.s \o "'"),
                  loaded |-> <<>>]
            ELSE LET rest == RequireEach(Tail(modules))
                 IN [error |-> rest.error, loaded |-> <<module.s>> \o rest.loaded]

(* handleRequire: the key is deleted first; a string stands for a list of   *)
(* one; a value that is neither a string nor an array is skipped.           *)
HandleRequire(mochaConfig) ==
    LET requireModules == Get(mochaConfig, "require")
        modules == IF requireModules.type = "string" THEN <<requireModules>>
                   ELSE IF requireModules.type = "array" THEN requireModules.items
                   ELSE <<>>
        loading == RequireEach(modules)
    IN [error |-> loading.error, loaded |-> loading.loaded,
        config |-> Delete(mochaConfig, "require")]

Resolved == [status |-> "resolved", error |-> Undefined]
Rejected(error) == [status |-> "rejected", error |-> Some(error)]
Pending == [status |-> "pending", error |-> Undefined]

(* The callback given to mocha.run.                                         *)
FailuresOutcomeOffByOne(failures) ==
    IF failures > 1 THEN Rejected(Decimal(failures) \o " tests failed.")
    ELSE Resolved

FailuresOutcome(failures) ==
    IF failures > 0 THEN Rejected(Decimal(failures) \o " tests failed.")
    ELSE Resolved

RECURSIVE Prefixed(_, _)
Prefixed(prefix, items) ==
    IF items = <<>> THEN <<>>
    ELSE <<prefix \o Head(items)>> \o Prefixed(prefix, Tail(items))

MochaCwd == "/proj"

(* mocha.run called before the files are added.                             *)
RunThenAddFiles(mochaCwd, files) ==
    <<"run">> \o Prefixed("addFile " \o mochaCwd \o "/", files)

(* mocha.run skipped when no file was found.                                *)
AddFilesAndRunUnlessEmpty(mochaCwd, files) ==
    IF files = <<>> THEN <<>>
    ELSE Prefixed("addFile " \o mochaCwd \o "/", files) \o <<"run">>

(* runMocha: files.forEach((f) => mocha.addFile(resolve(mochaCwd, f))),     *)
(* then mocha.run(...).                                                     *)
AddFilesAndRun(mochaCwd, files) ==
    Prefixed("addFile " \o mochaCwd \o "/", files) \o <<"run">>

(* runMocha: glob(globPattern, { cwd: mochaCwd }, callback)                 *)
GlobCall(globPattern, mochaCwd) == "glob " \o globPattern \o " in " \o mochaCwd

MochaConfigs ==
    LET specs == {JsUndefined, JsString("./test/**/*.js"), JsBoolean(TRUE)}
        requires == {JsUndefined, JsString("ts-node/register"),
                     JsArray(<<JsString("ts-node/register"), JsString("./setup")>>),
                     JsArray(<<JsString("./setup"), JsNumber(1)>>),
                     JsArray(<<JsString("you cannot require this")>>),
                     JsNumber(1), JsBoolean(TRUE)}
        others == {{"color"}, {"color", "timeout"}}
    IN {[k \in ks \cup (IF sp = JsUndefined THEN {} ELSE {"spec"})
                  \cup (IF rq = JsUndefined THEN {} ELSE {"require"}) |->
            IF k = "spec" THEN sp ELSE IF k = "require" THEN rq
            ELSE IF k = "timeout" THEN JsNumber(2000) ELSE JsBoolean(FALSE)]
        : sp \in specs, rq \in requires, ks \in others}

GlobAnswers ==
    {[err |-> Undefined, files |-> fs] :
        fs \in {<<>>, <<"test/inner/b.test.js">>,
                <<"test/inner/b.test.js", "test/a.test.js">>}}
    \cup {[err |-> Some("EIO: i/o error, scandir"), files |-> <<>>]}

MochaRuns ==
    {[throws |-> FALSE, failures |-> n] : n \in 0..MaxFailures}
    \cup {[throws |-> TRUE, failures |-> 0]}

MochaRunThrown == "an error from mocha.run"

(* A working directory that is a file, as __filename in the tests.          *)
NotAFolder == "/proj/test/a.test.js"

(* glob under a working directory that is no folder finds nothing.          *)
GlobAnswersIn(cwd) ==
    IF cwd = Some(NotAFolder) THEN {[err |-> Undefined, files |-> <<>>]}
    ELSE GlobAnswers

(* Mocha with no file added runs no test: it reports no failure and does    *)
(* not throw.                                                               *)
MochaRunsFor(files) ==
    IF files = <<>> THEN {[throws |-> FALSE, failures |-> 0]} ELSE MochaRuns

InitMocha ==
    /\ mpc = "start"
    /\ menv \in [cwd : {Undefined, Some(MochaCwd), Some(NotAFolder)},
                 configPath : {Undefined, Some("/proj/.mocharc.json")}]
    /\ mcache \in {Undefined} \cup {Some(c) : c \in MochaConfigs}
    /\ mglob \in GlobAnswersIn(menv.cwd)
    /\ mocharun \in MochaRunsFor(mglob.files)
    /\ mlog = <<>>
    /\ mctor = Undefined
    /\ mpattern = Undefined
    /\ mresult = Pending
    /\ mfirst = Undefined

(* run() up to the call of glob: the environment, the configuration file,   *)
(* handleSpec, handleRequire, new Mocha(config); any throw is logged and    *)
(* rethrown by the catch.                                                   *)
MochaRun ==
    /\ mpc = "start"
    /\ IF menv.configPath = Undefined \/ menv.cwd = Undefined
       THEN /\ mresult' = Rejected(MochaEnvError)
            /\ mpc' = "done"
            /\ UNCHANGED <<mcache, mlog, mctor, mpattern>>
       ELSE IF mcache = Undefined
       THEN /\ mresult' = Rejected("Cannot find module '" \o Val(menv.configPath) \o "'")
            /\ mpc' = "done"
            /\ UNCHANGED <<mcache, mlog, mctor, mpattern>>
       ELSE LET spec == HandleSpec(Val(mcache))
                req == HandleRequire(spec.config)
            IN IF IsDefined(spec.error)
               THEN /\ mresult' = Rejected(Val(spec.error))
                    /\ mpc' = "done"
                    /\ UNCHANGED <<mcache, mlog, mctor, mpattern>>
               ELSE IF IsDefined(req.error)
               THEN /\ mresult' = Rejected(Val(req.error))
                    /\ mcache' = Some(req.config)
                    /\ mlog' = mlog \o Prefixed("require ", req.loaded)
                    /\ mpc' = "done"
                    /\ UNCHANGED <<mctor, mpattern>>
               ELSE /\ mcache' = Some(req.config)
                    /\ mpattern' = spec.pattern
                    /\ mctor' = Some(req.config)
                    /\ mlog' = mlog \o Prefixed("require ", req.loaded)
                                    \o <<"new Mocha", GlobCall(Val(spec.pattern), Val(menv.cwd))>>
                    /\ mpc' = "globbing"
                    /\ UNCHANGED mresult
    /\ UNCHANGED <<menv, mglob, mocharun>>
    /\ UNCHANGED <<mfirst, launcherVars, nycVars, resolverVars, launchVars>>

(* The callback of glob: the error, or addFile for every file and then      *)
(* mocha.run, which may throw.                                              *)
GlobCallback ==
    /\ mpc = "globbing"
    /\ IF IsDefined(mglob.err)
       THEN /\ mresult' = Rejected(Val(mglob.err))
            /\ mpc' = "done"
            /\ UNCHANGED mlog
       ELSE /\ mlog' = mlog \o AddFilesAndRun(Val(menv.cwd), mglob.files)
            /\ IF mocharun.throws
               THEN /\ mresult' = Rejected(MochaRunThrown)
                    /\ mpc' = "done"
               ELSE /\ mpc' = "running"
                    /\ UNCHANGED mresult
    /\ UNCHANGED <<menv, mcache, mglob, mocharun, mctor, mpattern>>
    /\ UNCHANGED <<mfirst, launcherVars, nycVars, resolverVars, launchVars>>

(* The callback of mocha.run with the number of failures.                   *)
RunCallback ==
    /\ mpc = "running"
    /\ mresult' = FailuresOutcome(mocharun.failures)
    /\ mpc' = "done"
    /\ UNCHANGED <<menv, mcache, mglob, mocharun, mlog, mctor, mpattern>>
    /\ UNCHANGED <<mfirst, launcherVars, nycVars, resolverVars, launchVars>>

IdleLauncher ==
    /\ pc = "idle" /\ config = <<>> /\ wsFile = Absent /\ wsFileBefore = Absent
    /\ hostExtensions = {} /\ calls = <<>> /\ vscodeExecutablePath = Undefined
    /\ workspaceFileToDelete = Undefined /\ uninstallArgs = <<>>
    /\ installArgs = <<>> /\ thrown = Undefined /\ hostState = "notStarted"
    /\ logged = <<>> /\ result = "pending" /\ exitCode = Undefined

NextMocha == MochaRun \/ GlobCallback \/ RunCallback

MochaInit == InitMocha /\ IdleLauncher /\ IdleNyc /\ IdleResolver /\ IdleLaunch

SpecMocha == MochaInit /\ [][NextMocha]_vars

(* run() is invoked once more in the same process, with the same            *)
(* environment: require(configPath) answers from the module cache, with     *)
(* the object the earlier run() was given.                                  *)
MochaRunAgain ==
    /\ mpc = "done"
    /\ mfirst = Undefined
    /\ mfirst' = Some([pattern |-> mpattern, log |-> mlog, result |-> mresult])
    /\ mpc' = "start"
    /\ mlog' = <<>>
    /\ mctor' = Undefined
    /\ mpattern' = Undefined
    /\ mresult' = Pending
    /\ UNCHANGED <<menv, mcache, mglob, mocharun>>
    /\ UNCHANGED <<launcherVars, nycVars, resolverVars, launchVars>>

NextMochaTwice == NextMocha \/ MochaRunAgain

SpecMochaTwice == MochaInit /\ [][NextMochaTwice]_vars

-----------------------------------------------------------------------------
(* The in-host coverage wrapper (nyc-coverage.ts).                         *)
ENV_VAR_NYC_CWD == "VSCODE_TEST_CLI_NYC_CWD"
ENV_VAR_NYC_CONFIG_PATH == "VSCODE_TEST_CLI_NYC_CONFIG_PATH"
ENV_VAR_BASE_TEST_PATH == "VSCODE_TEST_CLI_BASE_TEST_PATH"

NycEnvError ==
    "The following environment variables must be defined for nyc: "
    \o ENV_VAR_NYC_CWD \o ", " \o ENV_VAR_NYC_CONFIG_PATH

(* The check that looks at the configuration path only.                     *)
NycEnvMissingConfigPathOnly(env) == env.nycConfigPath = Undefined

(* setupCoverage: nyConfigPath === undefined || nycCwd === undefined        *)
NycEnvMissing(env) == env.nycConfigPath = Undefined \/ env.nycCwd = Undefined

BaseTestEnvError ==
    "The following environment variable must be defined for coverage: "
    \o ENV_VAR_BASE_TEST_PATH

(* What the module at the base test path exports.                           *)
BaseModules == {"missing", "string", "objectWithoutRun", "objectWithStringRun",
                "objectWithRun"}

IsPlainObject(module) ==
    module \in {"objectWithoutRun", "objectWithStringRun", "objectWithRun"}

(* The check that asks for a run member of any type.                        *)
HasRunMember(module) == module \in {"objectWithStringRun", "objectWithRun"}

(* isFunction(baseRunImportObj.run)                                         *)
HasRunFunction(module) == module = "objectWithRun"

(* The checks of run() before setupCoverage: the error thrown, if any.      *)
ValidateBaseRun(baseRunPath, module) ==
    IF baseRunPath = Undefined THEN Some(BaseTestEnvError)
    ELSE IF module = "missing"
    THEN Some("Cannot find module '" \o Val(baseRunPath) \o "'")
    ELSE IF ~IsPlainObject(module)
    THEN Some("The import result of " \o Val(baseRunPath) \o " must be an object")
    ELSE IF ~HasRunFunction(module)
    THEN Some(Val(baseRunPath) \o " must export a \"run\" function")
    ELSE Undefined

(* The calls to the instrumentation engine, and the error of the one that   *)
(* fails.                                                                   *)
NycCalls == {"new Nyc", "reset", "addAllFiles", "wrap", "writeProcessIndex",
             "writeCoverageFile"}

NycCallError(call) == "nyc " \o call \o " failed"

(* The flag taken as set by any value that is truthy.                       *)
AllFilesTruthy(nycConfig) ==
    Get(nycConfig, "all") \notin {JsUndefined, JsBoolean(FALSE)}

(* nycConfig.all === true                                                   *)
AllFiles(nycConfig) == Get(nycConfig, "all") = JsBoolean(TRUE)

(* The finally block of run() runs whatever the delegate did.               *)
FinallyRunsOnSuccessOnly(delegateError) == delegateError = Undefined

FinallyRuns(delegateError) == TRUE

NycConfigs ==
    {[k \in {"reporter"} \cup (IF all = JsUndefined THEN {} ELSE {"all"}) |->
         IF k = "all" THEN all ELSE JsArray(<<JsString("json-summary")>>)]
     : all \in {JsUndefined, JsBoolean(TRUE), JsBoolean(FALSE), JsString("true")}}

DelegateError == "1 tests failed."

InitNyc ==
    /\ npc = "start"
    /\ nenv \in [baseTestPath : {Undefined, Some("/cli/mocha-tests")},
                 nycCwd : {Undefined, Some("/proj")},
                 nycConfigPath : {Undefined, Some("/proj/nyc.config.json")}]
    /\ nmodule \in BaseModules
    /\ nconfig \in {Undefined} \cup {Some(c) : c \in NycConfigs}
    /\ ndelegate \in {"resolves", "rejects", "throws"}
    /\ nfail \in {Undefined} \cup {Some(c) : c \in NycCalls}
    /\ nsteps = <<>>
    /\ nwritten = {}
    /\ nthrown = Undefined
    /\ nresult = Pending

(* The catch block of run() without its rethrow.                            *)
NycSettleSwallows(error) ==
    /\ nresult' = Resolved
    /\ nthrown' = error
    /\ npc' = "done"

NycSettle(error) ==
    /\ nresult' = IF IsDefined(error) THEN Rejected(Val(error)) ELSE Resolved
    /\ nthrown' = error
    /\ npc' = "done"

(* run() up to the first await of setupCoverage: the checks of the base     *)
(* test module, the environment of nyc, its configuration, new Nyc(...),    *)
(* and the call of nyc.reset().                                             *)
NycRun ==
    /\ npc = "start"
    /\ LET invalid == ValidateBaseRun(nenv.baseTestPath, nmodule)
       IN IF IsDefined(invalid)
          THEN NycSettle(invalid) /\ UNCHANGED nsteps
          ELSE IF NycEnvMissing(nenv)
          THEN NycSettle(Some(NycEnvError)) /\ UNCHANGED nsteps
          ELSE IF nconfig = Undefined
          THEN NycSettle(Some("Cannot find module '" \o Val(nenv.nycConfigPath) \o "'"))
               /\ UNCHANGED nsteps
          ELSE IF nfail = Some("new Nyc")
          THEN NycSettle(Some(NycCallError("new Nyc"))) /\ nsteps' = <<"new Nyc">>
          ELSE /\ nsteps' = <<"new Nyc", "reset">>
               /\ npc' = "reset"
               /\ UNCHANGED <<nthrown, nresult>>
    /\ UNCHANGED <<nenv, nmodule, nconfig, ndelegate, nfail, nwritten>>
    /\ UNCHANGED <<launcherVars, mochaVars, resolverVars, launchVars>>

(* setupCoverage going on when nyc.wrap() throws.                           *)
WrapAndReturnDespiteThrow(steps) ==
    /\ nsteps' = steps \o <<"wrap">>
    /\ npc' = "setupDone"
    /\ UNCHANGED <<nthrown, nresult>>

(* setupCoverage: nyc.wrap() and the return of the engine.                  *)
WrapAndReturn(steps) ==
    IF nfail = Some("wrap")
    THEN NycSettle(Some(NycCallError("wrap"))) /\ nsteps' = steps \o <<"wrap">>
    ELSE /\ nsteps' = steps \o <<"wrap">>
         /\ npc' = "setupDone"
         /\ UNCHANGED <<nthrown, nresult>>

(* setupCoverage after await nyc.reset().                                   *)
NycResetDone ==
    /\ npc = "reset"
    /\ IF nfail = Some("reset")
       THEN NycSettle(Some(NycCallError("reset"))) /\ UNCHANGED nsteps
       ELSE IF AllFiles(Val(nconfig))
       THEN /\ nsteps' = nsteps \o <<"addAllFiles">>
            /\ npc' = "addAllFiles"
            /\ UNCHANGED <<nthrown, nresult>>
       ELSE WrapAndReturn(nsteps)
    /\ UNCHANGED <<nenv, nmodule, nconfig, ndelegate, nfail, nwritten>>
    /\ UNCHANGED <<launcherVars, mochaVars, resolverVars, launchVars>>

(* setupCoverage after await nyc.addAllFiles().                             *)
NycAddAllFilesDone ==
    /\ npc = "addAllFiles"
    /\ IF nfail = Some("addAllFiles")
       THEN NycSettle(Some(NycCallError("addAllFiles"))) /\ UNCHANGED nsteps
       ELSE WrapAndReturn(nsteps)
    /\ UNCHANGED <<nenv, nmodule, nconfig, ndelegate, nfail, nwritten>>
    /\ UNCHANGED <<launcherVars, mochaVars, resolverVars, launchVars>>

(* The delegate has settled with delegateError (or none): the finally block *)
(* starts with the call of nyc.writeProcessIndex().                         *)
EnterFinally(steps, delegateError) ==
    IF FinallyRuns(delegateError)
    THEN /\ nsteps' = steps \o <<"writeProcessIndex">>
         /\ nthrown' = delegateError
         /\ npc' = "writeProcessIndex"
         /\ UNCHANGED nresult
    ELSE NycSettle(delegateError) /\ nsteps' = steps

(* run() after await setupCoverage(): baseRunImportObj.run() is called.     *)
NycInvokeDelegate ==
    /\ npc = "setupDone"
    /\ IF ndelegate = "throws"
       THEN EnterFinally(nsteps \o <<"delegate.run">>, Some(DelegateError))
       ELSE /\ nsteps' = nsteps \o <<"delegate.run">>
            /\ npc' = "delegateRunning"
            /\ UNCHANGED <<nthrown, nresult>>
    /\ UNCHANGED <<nenv, nmodule, nconfig, ndelegate, nfail, nwritten>>
    /\ UNCHANGED <<launcherVars, mochaVars, resolverVars, launchVars>>

(* The promise of the delegate settles.                                     *)
NycDelegateSettled ==
    /\ npc = "delegateRunning"
    /\ EnterFinally(nsteps, IF ndelegate = "rejects" THEN Some(DelegateError)
                            ELSE Undefined)
    /\ UNCHANGED <<nenv, nmodule, nconfig, ndelegate, nfail, nwritten>>
    /\ UNCHANGED <<launcherVars, mochaVars, resolverVars, launchVars>>

(* The finally block after await nyc.writeProcessIndex(): the coverage      *)
(* file is written, and run() settles; a throw of the finally block         *)
(* replaces what the delegate threw.                                        *)
NycWriteCoverage ==
    /\ npc = "writeProcessIndex"
    /\ IF nfail = Some("writeProcessIndex")
       THEN /\ NycSettle(Some(NycCallError("writeProcessIndex")))
            /\ UNCHANGED <<nsteps, nwritten>>
       ELSE IF nfail = Some("writeCoverageFile")
       THEN /\ NycSettle(Some(NycCallError("writeCoverageFile")))
            /\ nsteps' = nsteps \o <<"writeCoverageFile">>
            /\ nwritten' = nwritten \cup {"processIndex"}
       ELSE /\ NycSettle(nthrown)
            /\ nsteps' = nsteps \o <<"writeCoverageFile">>
            /\ nwritten' = nwritten \cup {"processIndex", "coverageFile"}
    /\ UNCHANGED <<nenv, nmodule, nconfig, ndelegate, nfail>>
    /\ UNCHANGED <<launcherVars, mochaVars, resolverVars, launchVars>>

NextNyc ==
    \/ NycRun
    \/ NycResetDone
    \/ NycAddAllFilesDone
    \/ NycInvokeDelegate
    \/ NycDelegateSettled
    \/ NycWriteCoverage

NycInit == InitNyc /\ IdleLauncher /\ IdleMocha /\ IdleResolver /\ IdleLaunch

SpecNyc == NycInit /\ [][NextNyc]_vars

-----------------------------------------------------------------------------
(* The code that runs inside the host: the test executor, or the coverage   *)
(* wrapper.                                                                 *)
InHostInit == MochaInit \/ NycInit

NextInHost == NextMocha \/ NextNyc

SpecInHost == InHostInit /\ [][NextInHost]_vars

-----------------------------------------------------------------------------
(* The configuration resolver (run-tests.ts,                               *)
(* validateAndResolveConfiguration).                                       *)
MaxDeviations == 2

ConfigurationFields ==
    {"extensionDevelopmentPath", "userDataDir", "vscodeVersion",
     "uninstallExtensionIDs", "disabledExtensionIDs", "additionalExtensionFolders",
     "mochaConfigPath", "nycConfigPath", "workspacePath", "initWorkspace",
     "disableAllExtensions"}

(* The configuration file of the model, and where it is.                    *)
ConfigPath == "/proj/.vscode-test-clirc.json"

BaseValidConfig ==
    [f \in ConfigurationFields |->
        IF f = "mochaConfigPath" THEN JsString("mocha.config.js") ELSE JsUndefined]

(* The other values a field of the configuration file takes in the model.   *)
FieldValues(f) ==
    CASE f = "extensionDevelopmentPath" ->
            {JsString("ext"), JsString("/abs/ext"), JsBoolean(TRUE)}
      [] f = "userDataDir" -> {JsString("userData"), JsString("/abs/data"), JsNumber(5)}
      [] f = "vscodeVersion" -> {JsString("1.53.0"), JsNumber(1)}
      [] f = "uninstallExtensionIDs" ->
            {JsArray(<<>>), JsArray(<<JsString("pub.a"), JsString("pub.z")>>),
             JsString("pub.a"), JsNumber(5)}
      [] f = "disabledExtensionIDs" ->
            {JsArray(<<JsString("pub.x")>>), JsString("pub.x"),
             JsArray(<<JsNumber(2)>>)}
      [] f = "additionalExtensionFolders" ->
            {JsArray(<<>>), JsArray(<<JsString("vsix")>>), JsString("vsix"),
             JsArray(<<JsString("vsix"), JsNumber(2)>>),
             JsArray(<<JsString("/abs/vsix"), JsString("vsix")>>)}
      [] f = "mochaConfigPath" -> {JsUndefined, JsString("/abs/mocha.js"), JsNumber(5)}
      [] f = "nycConfigPath" ->
            {JsString("nyc.config.js"), JsString("/abs/nyc.js"), JsBoolean(TRUE)}
      [] f = "workspacePath" ->
            {JsString("ws.code-workspace"), JsString("folder"),
             JsString("/abs/ws.code-workspace"), JsNumber(5)}
      [] f = "initWorkspace" -> {JsBoolean(TRUE), JsBoolean(FALSE), JsString("true")}
      [] f = "disableAllExtensions" ->
            {JsBoolean(TRUE), JsBoolean(FALSE), JsString("not a boolean")}

AllFieldValues == UNION {FieldValues(f) : f \in ConfigurationFields}

(* The configuration files of the model: the base one, with at most         *)
(* MaxDeviations fields given another value.                                *)
RawConfigurations ==
    UNION {
        {[f \in ConfigurationFields |-> IF f \in D THEN ch[f] ELSE BaseValidConfig[f]]
            : ch \in {c \in [D -> AllFieldValues] : \A f \in D : c[f] \in FieldValues(f)}}
        : D \in {E \in SUBSET ConfigurationFields : Cardinality(E) <= MaxDeviations}}

(* path.resolve(path, ".."): the folder of the configuration file.          *)
ParentOf(path) ==
    LET last == CHOOSE i \in 1..Len(path) :
                    /\ SubSeq(path, i, i) = "/"
                    /\ \A j \in (i + 1)..Len(path) : SubSeq(path, j, j) # "/"
    IN SubSeq(path, 1, last - 1)

(* The working directory of the process.                                    *)
ProcessCwd == "/cwd"

(* path.resolve(path): against the working directory of the process.        *)
ResolvePathAgainstCwd(base, path) ==
    IF path = "." THEN ProcessCwd
    ELSE IF SubSeq(path, 1, 1) = "/" THEN path
    ELSE ProcessCwd \o "/" \o path

(* path.resolve(configRelPath, path) for the paths of the model.            *)
ResolvePath(base, path) ==
    IF path = "." THEN base
    ELSE IF SubSeq(path, 1, 1) = "/" THEN path
    ELSE base \o "/" \o path

IsString(value) == value.type = "string"

IsBoolean(value) == value.type = "boolean"

IsArray(value) == value.type = "array"

(* value ?? fallback, for a string value.                                   *)
OrDefault(value, fallback) == IF value = JsUndefined THEN fallback ELSE value.s

(* The error assertStringOrUndefinedParameter throws, if any.               *)
AssertStringOrUndefinedParameter(name, value) ==
    IF value # JsUndefined /\ ~IsString(value)
    THEN Some("Configuration error: " \o name \o " must be a string")
    ELSE Undefined

(* assertStringArrayOrUndefinedParameter letting a single string through.   *)
AssertStringArrayAcceptsString(name, arrayValue) ==
    IF arrayValue # JsUndefined /\ ~IsArray(arrayValue) /\ ~IsString(arrayValue)
    THEN Some("Configuration error: " \o name \o " must be a string array")
    ELSE IF arrayValue # JsUndefined /\ IsArray(arrayValue)
            /\ \E i \in 1..Len(arrayValue.items) : ~IsString(arrayValue.items[i])
    THEN Some("Configuration error: " \o name \o " must be a string array")
    ELSE Undefined

(* The error assertStringArrayOrUndefinedParameter throws, if any.          *)
AssertStringArrayOrUndefinedParameter(name, arrayValue) ==
    IF arrayValue # JsUndefined /\ ~IsArray(arrayValue)
    THEN Some("Configuration error: " \o name \o " must be a string array")
    ELSE IF arrayValue # JsUndefined
            /\ \E i \in 1..Len(arrayValue.items) : ~IsString(arrayValue.items[i])
    THEN Some("Configuration error: " \o name \o " must be a string array")
    ELSE Undefined

(* The elements lodash map visits: those of an array, the characters of a   *)
(* string.                                                                  *)
ElementsOf(value) ==
    IF IsArray(value) THEN value.items
    ELSE [i \in 1..Len(value.s) |-> JsString(SubSeq(value.s, i, i))]

Failure(message) == [error |-> Some(message), value |-> <<>>]

Success(value) == [error |-> Undefined, value |-> value]

(* validateNycConfigPath requiring the path whether or not coverage is      *)
(* requested.                                                               *)
ValidateNycConfigPathAlways(isCoverage, raw, configRelPath) ==
    IF raw.nycConfigPath # JsUndefined /\ ~IsString(raw.nycConfigPath)
    THEN Failure("Configuration error: nycConfigPath must be a string")
    ELSE IF raw.nycConfigPath = JsUndefined
    THEN Failure("Configuration error: nycConfigPath must be defined when coverage is enabled")
    ELSE Success(Some(ResolvePath(configRelPath, raw.nycConfigPath.s)))

(* validateNycConfigPath: the error thrown, or the resolved path.           *)
ValidateNycConfigPath(isCoverage, raw, configRelPath) ==
    IF ~isCoverage THEN Success(Undefined)
    ELSE IF IsDefined(AssertStringOrUndefinedParameter("nycConfigPath",
                                                       raw.nycConfigPath))
    THEN Failure(Val(AssertStringOrUndefinedParameter("nycConfigPath",
                                                      raw.nycConfigPath)))
    ELSE IF raw.nycConfigPath = JsUndefined
    THEN Failure("Configuration error: nycConfigPath must be defined when coverage is enabled")
    ELSE Success(Some(ResolvePath(configRelPath, raw.nycConfigPath.s)))

(* The default of initWorkspace taken without looking at the disk.          *)
DefaultInitWorkspaceIgnoresDisk(isWorkspaceFile, exists) == isWorkspaceFile

(* validateInitWorkspace: the default, which creates the workspace file     *)
(* only if it doesn't exist.                                                *)
DefaultInitWorkspace(isWorkspaceFile, exists) == isWorkspaceFile /\ ~exists

(* validateInitWorkspace: the error thrown, or the resolved initWorkspace.  *)
ValidateInitWorkspace(raw, isWorkspaceFile, exists) ==
    IF raw.initWorkspace # JsUndefined /\ ~IsBoolean(raw.initWorkspace)
    THEN Failure("Configuration error: initWorkspace must be a boolean")
    ELSE IF raw.initWorkspace # JsUndefined
    THEN IF raw.initWorkspace.b /\ ~isWorkspaceFile
         THEN Failure("Configuration error: initWorkspace can be true only for a workspace file and not a folder")
         ELSE Success(raw.initWorkspace.b)
    ELSE Success(DefaultInitWorkspace(isWorkspaceFile, exists))

(* The check of the workspace path that accepts whatever exists.            *)
WorkspacePathErrorUnlessExists(isWorkspaceFile, onDisk) ==
    IF ~isWorkspaceFile /\ onDisk = "none"
    THEN Some("Configuration error: workspacePath must end with .code-workspace or be an existing folder")
    ELSE Undefined

(* validateAndResolveConfiguration: the error thrown for a workspace path   *)
(* that is neither a workspace file nor an existing folder, if any.         *)
WorkspacePathError(isWorkspaceFile, onDisk) ==
    IF ~isWorkspaceFile /\ (onDisk = "none" \/ onDisk # "dir")
    THEN Some("Configuration error: workspacePath must end with .code-workspace or be an existing folder")
    ELSE Undefined

(* lodash isEmpty of a string[] | undefined.                                *)
IsEmpty(optionalList) == optionalList = Undefined \/ Val(optionalList) = <<>>

(* The default of disableAllExtensions the other way round.                 *)
DefaultDisableAllExtensionsInverted(additionalExtensionFolders) ==
    ~IsEmpty(additionalExtensionFolders)

(* By default all extensions are disabled unless there are extensions to    *)
(* install for the tests.                                                   *)
DefaultDisableAllExtensions(additionalExtensionFolders) ==
    IsEmpty(additionalExtensionFolders)

(* additionalExtensionFolders resolved against the configuration folder.    *)
ResolveEach(configRelPath, value) ==
    IF value = JsUndefined THEN Undefined
    ELSE Some([i \in 1..Len(ElementsOf(value)) |->
                  ResolvePath(configRelPath, ElementsOf(value)[i].s)])

(* validateAndResolveConfiguration, from the check of mochaConfigPath on.   *)
ResolveFromMochaConfigPath(configRelPath, raw, isCoverage, onDisk) ==
    IF IsDefined(AssertStringOrUndefinedParameter("mochaConfigPath", raw.mochaConfigPath))
    THEN Failure(Val(AssertStringOrUndefinedParameter("mochaConfigPath",
                                                      raw.mochaConfigPath)))
    ELSE IF raw.mochaConfigPath = JsUndefined
    THEN Failure("Configuration error: mochaConfigPath must be defined")
    ELSE LET nyc == ValidateNycConfigPath(isCoverage, raw, configRelPath)
         IN IF IsDefined(nyc.error) THEN Failure(Val(nyc.error))
    ELSE IF IsDefined(AssertStringOrUndefinedParameter("workspacePath", raw.workspacePath))
    THEN Failure(Val(AssertStringOrUndefinedParameter("workspacePath", raw.workspacePath)))
    ELSE LET workspacePath ==
                 ResolvePath(configRelPath,
                             OrDefault(raw.workspacePath, "test.code-workspace"))
             isWorkspaceFile == EndsWith(workspacePath, ".code-workspace")
             init == ValidateInitWorkspace(raw, isWorkspaceFile, onDisk # "none")
             additionalExtensionFolders ==
                 ResolveEach(configRelPath, raw.additionalExtensionFolders)
         IN IF IsDefined(WorkspacePathError(isWorkspaceFile, onDisk))
            THEN Failure(Val(WorkspacePathError(isWorkspaceFile, onDisk)))
            ELSE IF IsDefined(init.error) THEN Failure(Val(init.error))
            ELSE IF raw.disableAllExtensions # JsUndefined
                    /\ ~IsBoolean(raw.disableAllExtensions)
            THEN Failure("Configuration error: disableAllExtensions must be a boolean")
            ELSE Success(
                [extensionDevelopmentPath |->
                     ResolvePath(configRelPath,
                                 OrDefault(raw.extensionDevelopmentPath, ".")),
                 workspacePath |-> workspacePath,
                 initWorkspace |-> init.value,
                 mochaConfigPath |-> ResolvePath(configRelPath, raw.mochaConfigPath.s),
                 nycConfigPath |-> nyc.value,
                 userDataDir |->
                     IF raw.userDataDir = JsUndefined THEN Undefined
                     ELSE Some(ResolvePath(configRelPath, raw.userDataDir.s)),
                 vscodeVersion |-> raw.vscodeVersion,
                 additionalExtensionFolders |-> additionalExtensionFolders,
                 uninstallExtensionIDs |-> raw.uninstallExtensionIDs,
                 disabledExtensionIDs |-> raw.disabledExtensionIDs,
                 disableAllExtensions |->
                     IF raw.disableAllExtensions # JsUndefined
                     THEN raw.disableAllExtensions.b
                     ELSE DefaultDisableAllExtensions(additionalExtensionFolders)])

(* The type checks validateAndResolveConfiguration starts with, in order:   *)
(* the first error thrown, if any.                                          *)
LeadingTypeError(raw) ==
    IF IsDefined(AssertStringOrUndefinedParameter("extensionDevelopmentPath",
                                                  raw.extensionDevelopmentPath))
    THEN AssertStringOrUndefinedParameter("extensionDevelopmentPath",
                                          raw.extensionDevelopmentPath)
    ELSE IF IsDefined(AssertStringOrUndefinedParameter("userDataDir", raw.userDataDir))
    THEN AssertStringOrUndefinedParameter("userDataDir", raw.userDataDir)
    ELSE IF IsDefined(AssertStringOrUndefinedParameter("vscodeVersion",
                                                       raw.vscodeVersion))
    THEN AssertStringOrUndefinedParameter("vscodeVersion", raw.vscodeVersion)
    ELSE IF IsDefined(AssertStringArrayOrUndefinedParameter("uninstallExtensionIDs",
                                                            raw.uninstallExtensionIDs))
    THEN AssertStringArrayOrUndefinedParameter("uninstallExtensionIDs",
                                               raw.uninstallExtensionIDs)
    ELSE IF IsDefined(AssertStringArrayOrUndefinedParameter("disabledExtensionIDs",
                                                            raw.disabledExtensionIDs))
    THEN AssertStringArrayOrUndefinedParameter("disabledExtensionIDs",
                                               raw.disabledExtensionIDs)
    ELSE AssertStringArrayOrUndefinedParameter("additionalExtensionFolders",
                                               raw.additionalExtensionFolders)

ValidateAndResolveConfiguration(configPath, raw, isCoverage, onDisk) ==
    IF IsDefined(LeadingTypeError(raw)) THEN Failure(Val(LeadingTypeError(raw)))
    ELSE ResolveFromMochaConfigPath(ParentOf(configPath), raw, isCoverage, onDisk)

InitResolver ==
    /\ rpc = "start"
    /\ rraw \in RawConfigurations
    /\ rcoverage \in BOOLEAN
    /\ rfs \in {"none", "file", "dir"}
    /\ rresult = <<>>

(* validateAndResolveConfiguration(configPath, config, isCoverage).         *)
ResolveConfiguration ==
    /\ rpc = "start"
    /\ rresult' = ValidateAndResolveConfiguration(ConfigPath, rraw, rcoverage, rfs)
    /\ rpc' = "done"
    /\ UNCHANGED <<rraw, rcoverage, rfs>>
    /\ UNCHANGED <<launcherVars, mochaVars, nycVars, launchVars>>

NextResolver == ResolveConfiguration

ResolverInit == InitResolver /\ IdleLauncher /\ IdleMocha /\ IdleNyc /\ IdleLaunch

SpecResolver == ResolverInit /\ [][NextResolver]_vars

-----------------------------------------------------------------------------
(* The launch plan of runVSCodeTests (run-tests.ts): the environment, the   *)
(* entry point and the arguments given to runTests.                         *)
MaxDisabledIDs == 2

(* __dirname of run-tests.ts.                                               *)
CliDirname == "/cli/dist/src"

UpperCaseLetters == "ABCDEFGHIJKLMNOPQRSTUVWXYZ"

LowerCaseLetters == "abcdefghijklmnopqrstuvwxyz"

(* /^[A-Z]:/.test(path)                                                     *)
StartsWithDriveLetter(path) ==
    /\ Len(path) >= 2
    /\ \E i \in 1..Len(UpperCaseLetters) :
         SubSeq(UpperCaseLetters, i, i) = SubSeq(path, 1, 1)
    /\ SubSeq(path, 2, 2) = ":"

(* String.prototype.toLowerCase of one ASCII character.                     *)
ToLowerCase(char) ==
    IF \E i \in 1..Len(UpperCaseLetters) : SubSeq(UpperCaseLetters, i, i) = char
    THEN LET i == CHOOSE i \in 1..Len(UpperCaseLetters) :
                      SubSeq(UpperCaseLetters, i, i) = char
         IN SubSeq(LowerCaseLetters, i, i)
    ELSE char

(* toLowerDriveLetter without the test of the platform.                     *)
ToLowerDriveLetterAnyPlatform(platform, path) ==
    IF StartsWithDriveLetter(path)
    THEN ToLowerCase(SubSeq(path, 1, 1)) \o SubSeq(path, 2, Len(path))
    ELSE path

ToLowerDriveLetter(platform, path) ==
    IF platform = "win32" /\ StartsWithDriveLetter(path)
    THEN ToLowerCase(SubSeq(path, 1, 1)) \o SubSeq(path, 2, Len(path))
    ELSE path

(* The entry point that is always the test executor.                        *)
ExtensionTestsPathNeverWrapped(isCoverage) == CliDirname \o "/mocha-tests"

(* runVSCodeTests: the entry point the host runs.                           *)
ExtensionTestsPath(isCoverage) ==
    IF isCoverage THEN CliDirname \o "/nyc-coverage" ELSE CliDirname \o "/mocha-tests"

(* runVSCodeTests: extensionTestsEnv.                                       *)
ExtensionTestsEnv(isCoverage, resolved, platform) ==
    LET testsCwd == ToLowerDriveLetter(platform, resolved.extensionDevelopmentPath)
        mochaEnv == (ENV_VAR_MOCHA_CWD :> testsCwd)
                    @@ (ENV_VAR_MOCHA_CONFIG_PATH :> resolved.mochaConfigPath)
    IN IF isCoverage
       THEN mochaEnv @@ (ENV_VAR_NYC_CWD :> testsCwd)
                     @@ (ENV_VAR_NYC_CONFIG_PATH :> Val(resolved.nycConfigPath))
                     @@ (ENV_VAR_BASE_TEST_PATH :> CliDirname \o "/mocha-tests")
       ELSE mochaEnv

(* The launch arguments without the disabled extensions.                    *)
LaunchArgsWithoutDisabled(resolved) ==
    <<resolved.workspacePath>>
    \o (IF IsDefined(resolved.userDataDir)
        THEN <<USER_DATA_DIR_PARAM, Val(resolved.userDataDir)>> ELSE <<>>)
    \o (IF resolved.disableAllExtensions THEN <<"--disable-extensions">> ELSE <<>>)

(* runVSCodeTests: launchArgs.                                              *)
LaunchArgs(resolved) ==
    <<resolved.workspacePath>>
    \o (IF IsDefined(resolved.userDataDir)
        THEN <<USER_DATA_DIR_PARAM, Val(resolved.userDataDir)>> ELSE <<>>)
    \o (IF IsDefined(resolved.disabledExtensionIDs)
        THEN FlagEach("--disable-extension", Val(resolved.disabledExtensionIDs))
        ELSE <<>>)
    \o (IF resolved.disableAllExtensions THEN <<"--disable-extensions">> ELSE <<>>)

(* The resolved configurations of the model; the resolver gives a           *)
(* nycConfigPath exactly when coverage is requested.                        *)
LaunchConfigurations(isCoverage) ==
    [extensionDevelopmentPath :
         {"C:\\proj\\Ext", "c:\\proj\\Ext", "Z:", "/proj/Ext", "C", "CC:\\x", ":C:"},
     mochaConfigPath : {"/proj/mocha.config.js"},
     nycConfigPath : IF isCoverage THEN {Some("/proj/nyc.config.js")} ELSE {Undefined},
     workspacePath : {WorkspacePath, "/proj/folder"},
     userDataDir : {Undefined, Some("/proj/userData")},
     disabledExtensionIDs :
         {Undefined} \cup {Some(ids) : ids \in SeqsUpTo({"pub.x", "pub.y"}, MaxDisabledIDs)},
     disableAllExtensions : BOOLEAN]

InitLaunch ==
    /\ lpc = "start"
    /\ lcoverage \in BOOLEAN
    /\ lplatform \in {"win32", "linux", "darwin"}
    /\ lconfig \in LaunchConfigurations(lcoverage)
    /\ loptions = <<>>

(* runVSCodeTests from the environment variables to the call of runTests,   *)
(* the workspace file set aside.                                            *)
BuildLaunchPlan ==
    /\ lpc = "start"
    /\ loptions' =
         [vscodeExecutablePath |-> "vscode-path",
          extensionDevelopmentPath |-> lconfig.extensionDevelopmentPath,
          extensionTestsPath |-> ExtensionTestsPath(lcoverage),
          launchArgs |-> LaunchArgs(lconfig),
          extensionTestsEnv |-> ExtensionTestsEnv(lcoverage, lconfig, lplatform)]
    /\ lpc' = "runTests"
    /\ UNCHANGED <<lcoverage, lplatform, lconfig>>
    /\ UNCHANGED <<launcherVars, mochaVars, nycVars, resolverVars>>

NextLaunch == BuildLaunchPlan

LaunchInit == InitLaunch /\ IdleLauncher /\ IdleMocha /\ IdleNyc /\ IdleResolver

SpecLaunch == LaunchInit /\ [][NextLaunch]_vars


-----------------------------------------------------------------------------
(* Views of the history of calls.                                          *)
CallIndices(fn) == {i \in 1..Len(calls) : calls[i].fn = fn}

SpawnIndices(purposes) ==
    {i \in 1..Len(calls) : calls[i].fn = "spawnSync" /\ calls[i].purpose \in purposes}

Settled == result # "pending"

(* This run wrote the workspace descriptor: config.initWorkspace held and   *)
(* writeJson completed.                                                     *)
WroteWorkspace == \E i \in CallIndices("writeJson") : calls[i].error = Undefined

(* The errors raised inside the try block of runVSCodeTests, in order.      *)
IsTryError(call) == call.fn # "unlink" /\ IsDefined(call.error)
TryErrors == SelectSeq(calls, IsTryError)

UnlinkFailed == \E i \in CallIndices("unlink") : IsDefined(calls[i].error)

-----------------------------------------------------------------------------
(* C1, as stated: once runVSCodeTests has settled, a workspace file written *)
(* by this run no longer exists.                                            *)
C1_DeletedOnEveryExitPath ==
    (Settled /\ WroteWorkspace) => wsFile = Absent

(* C1, amended: once runVSCodeTests has settled, the deletion of a          *)
(* workspace file written by this run has been attempted exactly once, on   *)
(* the path written, after the write; the file is gone when that unlink     *)
(* succeeded, and when it failed the file is still there and the failure    *)
(* was logged.                                                              *)
C1_DeletionAttemptedOnEveryExitPath ==
    (Settled /\ WroteWorkspace) =>
        /\ Cardinality(CallIndices("unlink")) = 1
        /\ \A u \in CallIndices("unlink") :
             /\ calls[u].arg = config.workspacePath
             /\ \A w \in CallIndices("writeJson") : w < u
             /\ calls[u].error = Undefined => wsFile = Absent
             /\ IsDefined(calls[u].error) => (wsFile = EmptyWorkspace /\ logged # <<>>)

C1_Witness ==
    /\ Settled /\ WroteWorkspace
    /\ hostState = "exitedFailed"
    /\ wsFileBefore = OtherContent
    /\ wsFile = Absent

(* C2: runVSCodeTests rejects exactly when a step of its try block raised,  *)
(* with the error that step raised, and only after the cleanup step ran; a  *)
(* failed unlink changes neither.                                           *)
C2_FailurePropagatesCleanupNeverMasks ==
    Settled =>
        /\ TryErrors = <<>> => (result = "resolved" /\ thrown = Undefined)
        /\ TryErrors # <<>> =>
             /\ result = "rejected"
             /\ Len(TryErrors) = 1
             /\ thrown = TryErrors[1].error
        /\ WroteWorkspace => CallIndices("unlink") # {}

C2_Witness ==
    /\ Settled /\ UnlinkFailed
    /\ hostState = "exitedFailed"
    /\ result = "rejected" /\ thrown = Some("Failed")

(* C3: every extension-manager subprocess call precedes the write of the    *)
(* workspace descriptor; the write precedes the start of the host, which    *)
(* finds the file with the empty workspace in it; the host run has ended    *)
(* before the descriptor is deleted.                                        *)
C3_StepsStrictlyOrdered ==
    /\ \A i \in SpawnIndices({"uninstall", "install", "retry"}) :
         \A w \in CallIndices("mkdirs") \cup CallIndices("writeJson") : i < w
    /\ \A w \in CallIndices("writeJson") : \A h \in CallIndices("runTests") : w < h
    /\ \A h \in CallIndices("runTests") :
         config.initWorkspace => calls[h].arg = EmptyWorkspace
    /\ (hostState = "running" /\ config.initWorkspace) =>
         (WroteWorkspace /\ wsFile = EmptyWorkspace)
    /\ \A u \in CallIndices("unlink") :
         /\ hostState \in {"exitedOk", "exitedFailed"}
         /\ \A h \in CallIndices("runTests") \cup CallIndices("runTestsSettled") : h < u
         /\ CallIndices("runTestsSettled") # {}

C3_Witness ==
    /\ SpawnIndices({"uninstall"}) # {}
    /\ SpawnIndices({"install"}) # {}
    /\ SpawnIndices({"retry"}) # {}
    /\ CallIndices("unlink") # {}
    /\ hostState = "exitedFailed"

(* What the uninstall invocation must be given.                             *)
IsUninstallArgs(args, ids, userDataDir) ==
    /\ Len(args) = 2 * Len(ids) + 1 + (IF IsDefined(userDataDir) THEN 2 ELSE 0)
    /\ \A k \in 1..Len(ids) :
         args[2 * k - 1] = "--uninstall-extension" /\ args[2 * k] = ids[k]
    /\ args[2 * Len(ids) + 1] = "--force"
    /\ IsDefined(userDataDir) =>
         /\ args[2 * Len(ids) + 2] = "--user-data-dir"
         /\ args[2 * Len(ids) + 3] = Val(userDataDir)

UninstallIDs == OrEmpty(config.uninstallExtensionIDs)

(* installExtensions was called and has returned or thrown.                 *)
InstallExtensionsDone == Settled /\ IsDefined(vscodeExecutablePath)

(* The scan of the install folders found a package in every folder.         *)
ScanSucceeded ==
    \E i \in CallIndices("getInstallArgsFromInstallationFolders") :
        calls[i].error = Undefined

UninstallBeforeInstall ==
    /\ Cardinality(SpawnIndices({"uninstall"})) <= 1
    /\ \A u \in SpawnIndices({"uninstall"}) :
         /\ UninstallIDs # <<>>
         /\ calls[u].cli = "vscode-cli-path"
         /\ IsUninstallArgs(calls[u].args, UninstallIDs, config.userDataDir)
         /\ \A i \in SpawnIndices({"install", "retry"}) : u < i
    /\ UninstallIDs = <<>> => SpawnIndices({"uninstall"}) = {}
    /\ (SpawnIndices({"install", "retry"}) # {} /\ UninstallIDs # <<>>) =>
         SpawnIndices({"uninstall"}) # {}

(* C4, as stated: whenever installExtensions ran with a non-empty           *)
(* uninstallExtensionIDs there was exactly one uninstall invocation, before *)
(* any install invocation; with an empty or absent list there was none.     *)
C4_UninstallExactlyOnce ==
    /\ UninstallBeforeInstall
    /\ (InstallExtensionsDone /\ UninstallIDs # <<>>) =>
         Cardinality(SpawnIndices({"uninstall"})) = 1

(* C4, amended: the same, provided the scan of the install folders found a  *)
(* package in every folder; when a folder is missing or holds no package    *)
(* installExtensions throws before the uninstall invocation and there is    *)
(* none.                                                                    *)
C4_UninstallExactlyOnceAfterScan ==
    /\ UninstallBeforeInstall
    /\ (InstallExtensionsDone /\ UninstallIDs # <<>> /\ ScanSucceeded) =>
         Cardinality(SpawnIndices({"uninstall"})) = 1
    /\ ~ScanSucceeded => SpawnIndices({"uninstall"}) = {}

C4_Witness ==
    /\ InstallExtensionsDone
    /\ Len(UninstallIDs) = 2
    /\ SpawnIndices({"uninstall"}) # {}
    /\ SpawnIndices({"retry"}) # {}

HasBoth(stderr) ==
    /\ stderr.kind = "string"
    /\ Includes(stderr.text, "Failed")
    /\ Includes(stderr.text, "restart")

(* C5: at most one install and one retry invocation; the retry follows the  *)
(* install at once with the same CLI path and arguments; and it happens if  *)
(* and only if the stderr captured from the install holds both "Failed"     *)
(* and "restart".                                                           *)
C5_RetryExactlyOnceOnSignature ==
    /\ Cardinality(SpawnIndices({"install"})) <= 1
    /\ Cardinality(SpawnIndices({"retry"})) <= 1
    /\ \A r \in SpawnIndices({"retry"}) :
         /\ r - 1 \in SpawnIndices({"install"})
         /\ calls[r].cli = calls[r - 1].cli
         /\ calls[r].args = calls[r - 1].args
         /\ HasBoth(calls[r - 1].stderr)
    /\ \A i \in SpawnIndices({"install"}) :
         (HasBoth(calls[i].stderr) /\ pc # "retry") => i + 1 \in SpawnIndices({"retry"})
    /\ pc = "retry" =>
         /\ SpawnIndices({"retry"}) = {}
         /\ \E i \in SpawnIndices({"install"}) : HasBoth(calls[i].stderr)

C5_Witness ==
    /\ Settled
    /\ SpawnIndices({"retry"}) # {}
    /\ \E i \in SpawnIndices({"install"}) : Len(calls[i].args) > 5

C5_WitnessNoRetry ==
    /\ Settled
    /\ SpawnIndices({"retry"}) = {}
    /\ \E i \in SpawnIndices({"install"}) :
         Includes(calls[i].stderr.text, "Failed") /\ ~HasBoth(calls[i].stderr)

(* The run made a first install invocation that failed with the transient   *)
(* signature, and the retry ended as given.                                 *)
RetryEnded(kinds) == \E r \in SpawnIndices({"retry"}) : calls[r].kind \in kinds

(* C6, as stated: a transient failure followed by a successful retry is not *)
(* surfaced, and a retry that fails too makes runVSCodeTests reject.        *)
C6_FailedRetryPropagates ==
    Settled =>
        /\ (RetryEnded({"ok"}) /\ Len(TryErrors) = 0) => result = "resolved"
        /\ RetryEnded({"failed", "spawnError"}) => result = "rejected"

(* The part of C6 the code keeps: the outcome of the retry, whatever it is, *)
(* never decides how the run settles.                                       *)
C6_RetryOutcomeIgnored ==
    (Settled /\ SpawnIndices({"retry"}) # {}) =>
        (result = "rejected" <=> TryErrors # <<>>)

(* An uninstall or first install invocation that could not be spawned or    *)
(* failed without the transient signature.                                  *)
SubprocessFailed ==
    \/ \E u \in SpawnIndices({"uninstall"}) : calls[u].kind \in {"failed", "spawnError"}
    \/ \E i \in SpawnIndices({"install"}) :
         calls[i].kind \in {"failed", "spawnError"} /\ ~HasBoth(calls[i].stderr)

(* C7, as stated: such a failure makes runVSCodeTests reject and the        *)
(* command-line run exit with a non-zero code.                              *)
C7_SubprocessFailurePropagates ==
    /\ (Settled /\ SubprocessFailed) => result = "rejected"
    /\ (IsDefined(exitCode) /\ SubprocessFailed) => Val(exitCode) # 0

(* The extension ids this run installed: those of every install or retry    *)
(* invocation that succeeded.                                               *)
InstalledByRun ==
    UNION {IdsOf(calls[i].args) :
             i \in {j \in SpawnIndices({"install", "retry"}) : calls[j].kind = "ok"}}

(* C8, as stated: once runVSCodeTests has settled, none of the extensions   *)
(* this run installed is installed in the host.                             *)
C8_InstalledExtensionsRemoved ==
    Settled => InstalledByRun \cap hostExtensions = {}

(* C8, amended: the workspace descriptor is the only resource the run       *)
(* cleans up. No uninstall invocation follows an install invocation, the    *)
(* only call after the host run has ended is the unlink of the descriptor,  *)
(* and every extension this run installed is still installed in the host    *)
(* once runVSCodeTests has settled.                                         *)
C8_InstalledExtensionsKept ==
    /\ \A i \in SpawnIndices({"install", "retry"}) :
         \A u \in SpawnIndices({"uninstall"}) : u < i
    /\ \A e \in CallIndices("runTestsSettled") :
         \A k \in (e + 1)..Len(calls) : calls[k].fn = "unlink"
    /\ Settled => InstalledByRun \subseteq hostExtensions

C8_Witness ==
    /\ Settled
    /\ SpawnIndices({"uninstall"}) # {}
    /\ {"pub.b", "pub.c"} \subseteq InstalledByRun
    /\ CallIndices("unlink") # {}
    /\ wsFile = Absent

-----------------------------------------------------------------------------
(* mocha.run was started and called back or threw.                          *)
MochaRunStarted == \E i \in 1..Len(mlog) : mlog[i] = "run"

(* C9: once the test runner was started, run() rejects with the error       *)
(* thrown when starting it threw, rejects with "<N> tests failed." when it  *)
(* reported N > 0 failures, and resolves when it reported none.             *)
C9_FailureCountDecidesOutcome ==
    (mpc = "done" /\ MochaRunStarted) =>
        /\ mocharun.throws =>
             (mresult.status = "rejected" /\ mresult.error = Some("an error from mocha.run"))
        /\ (~mocharun.throws /\ mocharun.failures > 0) =>
             /\ mresult.status = "rejected"
             /\ mresult.error = Some(Decimal(mocharun.failures) \o " tests failed.")
        /\ (~mocharun.throws /\ mocharun.failures = 0) =>
             (mresult.status = "resolved" /\ mresult.error = Undefined)

C9_Witness ==
    /\ mpc = "done" /\ MochaRunStarted
    /\ ~mocharun.throws /\ mocharun.failures = 1
    /\ mresult = [status |-> "rejected", error |-> Some("1 tests failed.")]

-----------------------------------------------------------------------------
StepIndices(step) == {i \in 1..Len(nsteps) : nsteps[i] = step}

DelegateInvoked == StepIndices("delegate.run") # {}

(* C10, as stated: once the delegate was invoked, both coverage files have  *)
(* been written when the wrapper settles.                                   *)
C10_CoverageFilesWritten ==
    (npc = "done" /\ DelegateInvoked) => nwritten = {"processIndex", "coverageFile"}

(* C10, amended: once the delegate was invoked, the write of the process    *)
(* coverage index is attempted after it and before the wrapper settles,     *)
(* whether the delegate resolved, rejected or threw; both files are written *)
(* unless one of the two writes fails: a failed index write leaves both     *)
(* unwritten (the coverage file is not attempted), a failed coverage file   *)
(* write leaves the index alone written.                                    *)
C10_CoverageWritesAttempted ==
    (npc = "done" /\ DelegateInvoked) =>
        /\ Cardinality(StepIndices("writeProcessIndex")) = 1
        /\ \A d \in StepIndices("delegate.run") :
             \A w \in StepIndices("writeProcessIndex") : d < w
        /\ nfail \notin {Some("writeProcessIndex"), Some("writeCoverageFile")} =>
             nwritten = {"processIndex", "coverageFile"}
        /\ nfail = Some("writeProcessIndex") =>
             (nwritten = {} /\ StepIndices("writeCoverageFile") = {})
        /\ nfail = Some("writeCoverageFile") => nwritten = {"processIndex"}

C10_Witness ==
    /\ npc = "done" /\ DelegateInvoked
    /\ ndelegate = "rejects"
    /\ nwritten = {"processIndex", "coverageFile"}
    /\ nresult = [status |-> "rejected", error |-> Some("1 tests failed.")]

-----------------------------------------------------------------------------
WriteFailed == nfail \in {Some("writeProcessIndex"), Some("writeCoverageFile")}

(* C11, as stated: when the delegate rejects with E the wrapper rejects     *)
(* with E, and when the delegate resolves the wrapper resolves.             *)
C11_DelegateOutcomeIsWrapperOutcome ==
    (npc = "done" /\ DelegateInvoked) =>
        nresult = IF ndelegate = "resolves" THEN Resolved ELSE Rejected(DelegateError)

(* C11, amended: when no coverage write fails, the wrapper rejects with the *)
(* delegate's error E when the delegate rejected (or threw) with E and      *)
(* resolves when the delegate resolved; when a coverage write fails, the    *)
(* wrapper rejects with the error of that write, whatever the delegate did. *)
C11_DelegateOutcomeUnlessWriteFails ==
    (npc = "done" /\ DelegateInvoked) =>
        /\ ~WriteFailed =>
             nresult = IF ndelegate = "resolves" THEN Resolved
                       ELSE Rejected(DelegateError)
        /\ WriteFailed => nresult = Rejected(NycCallError(Val(nfail)))

C11_Witness ==
    /\ npc = "done" /\ DelegateInvoked
    /\ ndelegate = "rejects" /\ ~WriteFailed
    /\ nresult = Rejected("1 tests failed.")
    /\ StepIndices("writeCoverageFile") # {}

-----------------------------------------------------------------------------
EmptyOrAbsent(optionalList) == optionalList = Undefined \/ optionalList = Some(<<>>)

AllSpawns == {i \in 1..Len(calls) : calls[i].fn = "spawnSync"}

(* C12: when both uninstallExtensionIDs and additionalExtensionFolders are  *)
(* empty or absent, in every combination, installExtensions is a no-op: no  *)
(* subprocess is ever spawned, and the install folders are not scanned.     *)
C12_NoSubprocessWhenNothingToDo ==
    (EmptyOrAbsent(config.uninstallExtensionIDs)
         /\ EmptyOrAbsent(config.additionalExtensionFolders)) =>
        /\ AllSpawns = {}
        /\ CallIndices("getInstallArgsFromInstallationFolders") = {}

C12_Witness ==
    /\ Settled
    /\ config.uninstallExtensionIDs = Some(<<>>)
    /\ config.additionalExtensionFolders = Undefined
    /\ CallIndices("runTests") # {}
    /\ AllSpawns = {}

-----------------------------------------------------------------------------
(* A folder that does not exist, or holds no entry ending in .vsix.         *)
Offending(folder) ==
    \/ ~PathExists(folder)
    \/ \A i \in 1..Len(Readdir(folder)) : ~EndsWith(Readdir(folder)[i], ".vsix")

OffendingIndices ==
    {i \in 1..Len(OrEmpty(config.additionalExtensionFolders)) :
        Offending(Val(config.additionalExtensionFolders)[i])}

FirstOffending ==
    Val(config.additionalExtensionFolders)[
        CHOOSE i \in OffendingIndices : \A j \in OffendingIndices : i <= j]

RejectedNaming(path) ==
    result = "rejected" /\ IsDefined(thrown) /\ Includes(Val(thrown), path)

(* C13, as stated: runVSCodeTests rejects with an error naming every        *)
(* folder of the list that is missing or holds no .vsix entry.              *)
C13_RejectsNamingOffendingFolder ==
    Settled =>
        \A i \in OffendingIndices :
            RejectedNaming(Val(config.additionalExtensionFolders)[i])

(* C13, amended: when the host was acquired and the list of install         *)
(* folders holds a folder that is missing or holds no .vsix entry,          *)
(* runVSCodeTests rejects with an error naming the first such folder of the *)
(* list, even when earlier folders are valid, and no subprocess is spawned; *)
(* a later offending folder is not named.                                   *)
C13_RejectsNamingFirstOffendingFolder ==
    (Settled /\ IsDefined(vscodeExecutablePath) /\ OffendingIndices # {}) =>
        /\ RejectedNaming(FirstOffending)
        /\ \A i \in OffendingIndices :
             Val(config.additionalExtensionFolders)[i] # FirstOffending =>
                 ~Includes(Val(thrown), Val(config.additionalExtensionFolders)[i])
        /\ AllSpawns = {}

C13_Witness ==
    /\ Settled
    /\ config.additionalExtensionFolders = Some(<<"/ext/one", "/ext/novsix">>)
    /\ result = "rejected"
    /\ thrown = Some("Could not find *.vsix files in /ext/novsix")

-----------------------------------------------------------------------------
ResolutionDone == rpc = "done"

ResolutionFailed == ResolutionDone /\ IsDefined(rresult.error)

ResolutionSucceeded == ResolutionDone /\ rresult.error = Undefined

FailedNaming(field) == ResolutionFailed /\ Includes(Val(rresult.error), field)

StringOrAbsent(value) == value = JsUndefined \/ value.type = "string"

(* The directory that holds the configuration file.                         *)
ConfigDir == "/proj"

IsAbsolute(path) == Len(path) > 0 /\ SubSeq(path, 1, 1) = "/"

(* Where a path of the configuration file points: itself when absolute,     *)
(* else below the directory of the configuration file.                      *)
FromConfigDir(path) == IF IsAbsolute(path) THEN path ELSE ConfigDir \o "/" \o path

StringArrayOrAbsent(value) ==
    \/ value = JsUndefined
    \/ /\ value.type = "array"
       /\ \A i \in 1..Len(value.items) : value.items[i].type = "string"

(* The fields checked before mochaConfigPath hold values of their types.    *)
LeadingFieldsWellTyped ==
    /\ StringOrAbsent(rraw.extensionDevelopmentPath)
    /\ StringOrAbsent(rraw.userDataDir)
    /\ StringOrAbsent(rraw.vscodeVersion)
    /\ StringArrayOrAbsent(rraw.uninstallExtensionIDs)
    /\ StringArrayOrAbsent(rraw.disabledExtensionIDs)
    /\ StringArrayOrAbsent(rraw.additionalExtensionFolders)

(* C14, as stated: resolution fails naming mochaConfigPath whenever it is   *)
(* absent, fails naming nycConfigPath whenever coverage is requested and it *)
(* is absent, and without coverage never fails over nycConfigPath and       *)
(* resolves it to absent.                                                   *)
C14_RequiredFieldsNamed ==
    ResolutionDone =>
        /\ rraw.mochaConfigPath = JsUndefined => FailedNaming("mochaConfigPath")
        /\ (rcoverage /\ rraw.nycConfigPath = JsUndefined) =>
               FailedNaming("nycConfigPath")
        /\ ~rcoverage =>
               /\ ~FailedNaming("nycConfigPath")
               /\ ResolutionSucceeded => rresult.value.nycConfigPath = Undefined

(* C14, amended: resolution fails whenever mochaConfigPath is absent, and   *)
(* whenever coverage is requested and nycConfigPath is absent; the error    *)
(* names mochaConfigPath when the fields checked before it are well typed,  *)
(* and names nycConfigPath when moreover mochaConfigPath is a string;       *)
(* otherwise it names the field whose check failed first.  Without coverage *)
(* resolution never fails over nycConfigPath and resolves it to absent,     *)
(* even if the configuration file supplied one.                             *)
C14_RequiredFieldsNamedInCheckOrder ==
    ResolutionDone =>
        /\ rraw.mochaConfigPath = JsUndefined =>
               /\ ResolutionFailed
               /\ LeadingFieldsWellTyped => FailedNaming("mochaConfigPath")
        /\ (rcoverage /\ rraw.nycConfigPath = JsUndefined) =>
               /\ ResolutionFailed
               /\ (LeadingFieldsWellTyped /\ rraw.mochaConfigPath.type = "string") =>
                      FailedNaming("nycConfigPath")
        /\ ~rcoverage =>
               /\ ~FailedNaming("nycConfigPath")
               /\ ResolutionSucceeded => rresult.value.nycConfigPath = Undefined

C14_Witness ==
    /\ ResolutionDone /\ rcoverage
    /\ rraw.nycConfigPath = JsUndefined
    /\ rraw.mochaConfigPath = JsString("mocha.config.js")
    /\ rresult.error =
         Some("Configuration error: nycConfigPath must be defined when coverage is enabled")

-----------------------------------------------------------------------------
BooleanOrAbsent(value) == value = JsUndefined \/ value.type = "boolean"

StringFields ==
    {"mochaConfigPath", "extensionDevelopmentPath", "nycConfigPath", "userDataDir",
     "vscodeVersion", "workspacePath"}

BooleanFields == {"disableAllExtensions", "initWorkspace"}

StringArrayFields ==
    {"additionalExtensionFolders", "disabledExtensionIDs", "uninstallExtensionIDs"}

IllTyped(field) ==
    \/ field \in StringFields /\ ~StringOrAbsent(rraw[field])
    \/ field \in BooleanFields /\ ~BooleanOrAbsent(rraw[field])
    \/ field \in StringArrayFields /\ ~StringArrayOrAbsent(rraw[field])

(* C15: for every value of coverageRequested, resolution fails whenever a   *)
(* field is present with a value of the wrong type (the error, the claim    *)
(* adds, naming the field).                                                 *)
C15_IllTypedFieldFailsResolution ==
    (ResolutionDone /\ \E field \in ConfigurationFields : IllTyped(field)) =>
        ResolutionFailed

(* What the code does instead: nycConfigPath is type-checked only when      *)
(* coverage is requested, and is the only field so treated.                 *)
C15_OnlyNycConfigPathEscapes ==
    (ResolutionSucceeded /\ \E field \in ConfigurationFields : IllTyped(field)) =>
        /\ ~rcoverage
        /\ \A field \in ConfigurationFields :
             IllTyped(field) => field = "nycConfigPath"

-----------------------------------------------------------------------------
(* The field of the resolved configuration is [s], or its resolved path for *)
(* additionalExtensionFolders.                                              *)
NormalizedToSingleton(field, s) ==
    IF field = "additionalExtensionFolders"
    THEN rresult.value[field] = Some(<<FromConfigDir(s)>>)
    ELSE rresult.value[field] = JsArray(<<JsString(s)>>)

(* C16, as stated: a string-array field accepts a single string s, and the  *)
(* resolved configuration holds [s].                                        *)
C16_SingleStringNormalized ==
    ResolutionDone =>
        \A field \in StringArrayFields :
            rraw[field].type = "string" =>
                /\ ~FailedNaming(field)
                /\ ResolutionSucceeded => NormalizedToSingleton(field, rraw[field].s)

(* C16, amended: a string-array field accepts only an array of strings (or  *)
(* absence).  A single string makes resolution fail, with the error         *)
(* "<field> must be a string array" when no other field is ill typed; the   *)
(* resolved configuration holds uninstallExtensionIDs and                   *)
(* disabledExtensionIDs as given, and the folders of                        *)
(* additionalExtensionFolders resolved against the configuration folder.    *)
C16_SingleStringRejected ==
    ResolutionDone =>
        /\ \A field \in StringArrayFields :
             rraw[field].type = "string" =>
                 /\ ResolutionFailed
                 /\ (\A other \in ConfigurationFields \ {field} : ~IllTyped(other)) =>
                        rresult.error = Some("Configuration error: " \o field
                                             \o " must be a string array")
        /\ ResolutionSucceeded =>
             /\ \A field \in StringArrayFields : StringArrayOrAbsent(rraw[field])
             /\ rresult.value.uninstallExtensionIDs = rraw.uninstallExtensionIDs
             /\ rresult.value.disabledExtensionIDs = rraw.disabledExtensionIDs
             /\ rraw.additionalExtensionFolders = JsUndefined =>
                    rresult.value.additionalExtensionFolders = Undefined
             /\ rraw.additionalExtensionFolders # JsUndefined =>
                    rresult.value.additionalExtensionFolders =
                        Some([i \in 1..Len(rraw.additionalExtensionFolders.items) |->
                                 FromConfigDir(
                                     rraw.additionalExtensionFolders.items[i].s)])

C16_Witness ==
    /\ ResolutionDone
    /\ rraw.uninstallExtensionIDs = JsString("pub.a")
    /\ rresult.error =
         Some("Configuration error: uninstallExtensionIDs must be a string array")

-----------------------------------------------------------------------------
WorkspaceSuffix == ".code-workspace"

(* The workspace path of the configuration file resolved against its        *)
(* folder, when it is a string or absent.                                   *)
ResolvedWorkspacePath ==
    FromConfigDir(IF rraw.workspacePath = JsUndefined THEN "test.code-workspace"
                  ELSE rraw.workspacePath.s)

NeitherWorkspaceFileNorFolder ==
    /\ StringOrAbsent(rraw.workspacePath)
    /\ ~EndsWith(ResolvedWorkspacePath, WorkspaceSuffix)
    /\ rfs # "dir"

(* The checks made before the one of workspacePath pass.                    *)
ChecksBeforeWorkspacePathPass ==
    /\ LeadingFieldsWellTyped
    /\ rraw.mochaConfigPath.type = "string"
    /\ rcoverage => rraw.nycConfigPath.type = "string"

WorkspacePathMessage ==
    "Configuration error: workspacePath must end with .code-workspace or be an existing folder"

(* C17, as stated: resolution fails naming workspacePath whenever the       *)
(* resolved workspacePath neither ends in .code-workspace nor is an         *)
(* existing directory, and every resolved configuration has a workspacePath *)
(* that ends in .code-workspace or is an existing directory.                *)
C17_WorkspacePathFileOrFolder ==
    ResolutionDone =>
        /\ NeitherWorkspaceFileNorFolder => FailedNaming("workspacePath")
        /\ ResolutionSucceeded =>
             \/ EndsWith(rresult.value.workspacePath, WorkspaceSuffix)
             \/ rfs = "dir"

(* C17, amended: resolution fails whenever the resolved workspacePath       *)
(* neither ends in .code-workspace nor is an existing directory (a path     *)
(* that exists as a regular file included), and the error names             *)
(* workspacePath when the checks made before it pass; every resolved        *)
(* configuration has a workspacePath that ends in .code-workspace or is an  *)
(* existing directory.                                                      *)
C17_WorkspacePathFileOrFolderInCheckOrder ==
    ResolutionDone =>
        /\ NeitherWorkspaceFileNorFolder =>
             /\ ResolutionFailed
             /\ ChecksBeforeWorkspacePathPass =>
                    rresult.error = Some(WorkspacePathMessage)
        /\ ResolutionSucceeded =>
             /\ rresult.value.workspacePath = ResolvedWorkspacePath
             /\ \/ EndsWith(rresult.value.workspacePath, WorkspaceSuffix)
                \/ rfs = "dir"

C17_Witness ==
    /\ ResolutionDone
    /\ rraw.workspacePath = JsString("folder")
    /\ rfs = "file"
    /\ rresult.error = Some(WorkspacePathMessage)

-----------------------------------------------------------------------------
(* C18: resolution fails for every configuration with initWorkspace true    *)
(* whose resolved workspacePath is a directory (the error, the claim adds,  *)
(* naming initWorkspace), so that no resolved configuration has             *)
(* initWorkspace true together with a workspacePath that is a directory.    *)
C18_InitWorkspaceNeverForFolder ==
    /\ (ResolutionDone /\ rraw.initWorkspace = JsBoolean(TRUE)
                       /\ StringOrAbsent(rraw.workspacePath) /\ rfs = "dir") =>
           ResolutionFailed
    /\ ResolutionSucceeded => ~(rresult.value.initWorkspace /\ rfs = "dir")

(* What the code does instead: initWorkspace true is refused for a          *)
(* workspacePath that does not end in .code-workspace, whatever is on disk. *)
C18_InitWorkspaceOnlyForSuffix ==
    /\ (ResolutionDone /\ rraw.initWorkspace = JsBoolean(TRUE)
                       /\ StringOrAbsent(rraw.workspacePath)
                       /\ ~EndsWith(ResolvedWorkspacePath, WorkspaceSuffix)) =>
           ResolutionFailed
    /\ ResolutionSucceeded =>
           (rresult.value.initWorkspace =>
                EndsWith(rresult.value.workspacePath, WorkspaceSuffix))

-----------------------------------------------------------------------------
(* C19: when the configuration file does not set initWorkspace, the         *)
(* resolved initWorkspace is true exactly when the resolved workspacePath   *)
(* ends in .code-workspace and nothing exists there; an initWorkspace set   *)
(* to a boolean that passes validation is returned unchanged, whether or    *)
(* not the file exists.                                                     *)
C19_DefaultInitWorkspace ==
    ResolutionSucceeded =>
        /\ rraw.initWorkspace = JsUndefined =>
             (rresult.value.initWorkspace <=>
                 (EndsWith(rresult.value.workspacePath, WorkspaceSuffix)
                     /\ rfs = "none"))
        /\ rraw.initWorkspace # JsUndefined =>
             rresult.value.initWorkspace = rraw.initWorkspace.b

C19_Witness ==
    /\ ResolutionSucceeded
    /\ rraw.initWorkspace = JsUndefined
    /\ rraw.workspacePath = JsString("ws.code-workspace")
    /\ rfs = "none"
    /\ rresult.value.initWorkspace = TRUE

C19_WitnessExisting ==
    /\ ResolutionSucceeded
    /\ rraw.initWorkspace = JsUndefined
    /\ rfs = "file"
    /\ rresult.value.initWorkspace = FALSE

C19_WitnessExplicit ==
    /\ ResolutionSucceeded
    /\ rraw.initWorkspace = JsBoolean(TRUE)
    /\ rfs = "file"
    /\ rresult.value.initWorkspace = TRUE

-----------------------------------------------------------------------------
C20_WitnessExplicit ==
    /\ ResolutionSucceeded
    /\ rraw.disableAllExtensions = JsBoolean(TRUE)
    /\ rraw.additionalExtensionFolders = JsArray(<<JsString("vsix")>>)
    /\ rresult.value.disableAllExtensions = TRUE

-----------------------------------------------------------------------------
FoldersGiven ==
    /\ rraw.additionalExtensionFolders # JsUndefined
    /\ rraw.additionalExtensionFolders.items # <<>>

-----------------------------------------------------------------------------
(* path.join(directory, path) for paths without "." or ".." segments.       *)
JoinPath(directory, path) ==
    IF IsAbsolute(path) THEN directory \o path ELSE directory \o "/" \o path

ScalarPathFields ==
    {"extensionDevelopmentPath", "workspacePath", "mochaConfigPath", "userDataDir"}

(* The path the resolved configuration holds for a field, as a value.       *)
ResolvedScalar(field) ==
    IF field \in {"userDataDir", "nycConfigPath"}
    THEN rresult.value[field]
    ELSE Some(rresult.value[field])

(* C22, as stated: for every value of coverageRequested, an explicit value  *)
(* P of a path field yields join(configDir, P) in the resolved              *)
(* configuration, each element of additionalExtensionFolders included.      *)
C22_PathsJoinedToConfigDir ==
    ResolutionSucceeded =>
        /\ \A field \in ScalarPathFields \cup {"nycConfigPath"} :
             rraw[field] # JsUndefined =>
                 ResolvedScalar(field) = Some(JoinPath(ConfigDir, rraw[field].s))
        /\ rraw.additionalExtensionFolders # JsUndefined =>
             rresult.value.additionalExtensionFolders =
                 Some([i \in 1..Len(rraw.additionalExtensionFolders.items) |->
                          JoinPath(ConfigDir, rraw.additionalExtensionFolders.items[i].s)])

(* C22, amended: an explicit relative value P of a path field yields        *)
(* join(configDir, P) and an explicit absolute P yields P itself, each      *)
(* element of additionalExtensionFolders included; nycConfigPath is so      *)
(* resolved only when coverage is requested and is absent otherwise; no     *)
(* path field is resolved against the working directory of the process.     *)
C22_PathsResolvedFromConfigDir ==
    ResolutionSucceeded =>
        /\ \A field \in ScalarPathFields :
             rraw[field] # JsUndefined =>
                 ResolvedScalar(field) =
                     Some(IF IsAbsolute(rraw[field].s) THEN rraw[field].s
                          ELSE JoinPath(ConfigDir, rraw[field].s))
        /\ (rcoverage /\ rraw.nycConfigPath # JsUndefined) =>
               rresult.value.nycConfigPath =
                   Some(IF IsAbsolute(rraw.nycConfigPath.s) THEN rraw.nycConfigPath.s
                        ELSE JoinPath(ConfigDir, rraw.nycConfigPath.s))
        /\ ~rcoverage => rresult.value.nycConfigPath = Undefined
        /\ rraw.additionalExtensionFolders # JsUndefined =>
             rresult.value.additionalExtensionFolders =
                 Some([i \in 1..Len(rraw.additionalExtensionFolders.items) |->
                          IF IsAbsolute(rraw.additionalExtensionFolders.items[i].s)
                          THEN rraw.additionalExtensionFolders.items[i].s
                          ELSE JoinPath(ConfigDir,
                                        rraw.additionalExtensionFolders.items[i].s)])

C22_Witness ==
    /\ ResolutionSucceeded /\ rcoverage
    /\ rraw.userDataDir = JsString("userData")
    /\ rresult.value.userDataDir = Some("/proj/userData")
    /\ rresult.value.nycConfigPath = Some("/proj/nyc.config.js")

C22_WitnessAbsolute ==
    /\ ResolutionSucceeded
    /\ rraw.additionalExtensionFolders = JsArray(<<JsString("/abs/vsix"), JsString("vsix")>>)
    /\ rresult.value.additionalExtensionFolders = Some(<<"/abs/vsix", "/proj/vsix">>)

-----------------------------------------------------------------------------
LaunchPlanned == lpc = "runTests"

ExecutorEntryPoint == "/cli/dist/src/mocha-tests"

WrapperEntryPoint == "/cli/dist/src/nyc-coverage"

(* C23: the environment given to the host holds exactly the mocha working   *)
(* directory and mocha configuration path keys without coverage, and those  *)
(* two plus the nyc working directory, nyc configuration path and base test *)
(* path keys with coverage; with coverage the nyc working directory equals  *)
(* the mocha working directory, the base test path is the test executor and *)
(* the host entry point is the coverage wrapper; without coverage the host  *)
(* entry point is the test executor.                                        *)
C23_EnvironmentKeysAndEntryPoint ==
    LaunchPlanned =>
      LET env == loptions.extensionTestsEnv
      IN IF lcoverage
         THEN /\ DOMAIN env = {ENV_VAR_MOCHA_CWD, ENV_VAR_MOCHA_CONFIG_PATH,
                               ENV_VAR_NYC_CWD, ENV_VAR_NYC_CONFIG_PATH,
                               ENV_VAR_BASE_TEST_PATH}
              /\ env[ENV_VAR_NYC_CWD] = env[ENV_VAR_MOCHA_CWD]
              /\ env[ENV_VAR_BASE_TEST_PATH] = ExecutorEntryPoint
              /\ loptions.extensionTestsPath = WrapperEntryPoint
         ELSE /\ DOMAIN env = {ENV_VAR_MOCHA_CWD, ENV_VAR_MOCHA_CONFIG_PATH}
              /\ loptions.extensionTestsPath = ExecutorEntryPoint

C23_Witness ==
    /\ LaunchPlanned
    /\ lcoverage
    /\ lplatform = "win32"
    /\ lconfig.extensionDevelopmentPath = "C:\\proj\\Ext"

C23_WitnessWithoutCoverage == LaunchPlanned /\ ~lcoverage

-----------------------------------------------------------------------------
(* The upper-case drive letters, each with its lower-case form.             *)
DriveLetters ==
    {<<SubSeq(UpperCaseLetters, i, i), SubSeq(LowerCaseLetters, i, i)>> : i \in 1..26}

HasUpperCaseDrive(path) ==
    Len(path) >= 2 /\ \E d \in DriveLetters : SubSeq(path, 1, 2) = d[1] \o ":"

WithLowerCaseDrive(path) ==
    LET d == CHOOSE d \in DriveLetters : SubSeq(path, 1, 2) = d[1] \o ":"
    IN d[2] \o SubSeq(path, 2, Len(path))

(* C24: the working directory given to the host has its drive letter in     *)
(* lower case on win32 when extensionDevelopmentPath starts with an         *)
(* upper-case drive letter and a colon, and equals extensionDevelopmentPath *)
(* on every other platform or path shape; the extensionDevelopmentPath      *)
(* given to runTests keeps its casing; toLowerDriveLetter is idempotent.    *)
C24_DriveLetterLowerCased ==
    LaunchPlanned =>
      LET path == lconfig.extensionDevelopmentPath
          cwd == loptions.extensionTestsEnv[ENV_VAR_MOCHA_CWD]
      IN /\ IF lplatform = "win32" /\ HasUpperCaseDrive(path)
            THEN cwd = WithLowerCaseDrive(path)
            ELSE cwd = path
         /\ loptions.extensionDevelopmentPath = path
         /\ ToLowerDriveLetter(lplatform, cwd) = cwd

C24_Witness ==
    /\ LaunchPlanned
    /\ lplatform = "win32"
    /\ lconfig.extensionDevelopmentPath = "C:\\proj\\Ext"
    /\ loptions.extensionTestsEnv[ENV_VAR_MOCHA_CWD] = "c:\\proj\\Ext"
    /\ loptions.extensionDevelopmentPath = "C:\\proj\\Ext"

C24_WitnessOtherPlatform ==
    /\ LaunchPlanned
    /\ lplatform = "linux"
    /\ lconfig.extensionDevelopmentPath = "C:\\proj\\Ext"
    /\ loptions.extensionTestsEnv[ENV_VAR_MOCHA_CWD] = "C:\\proj\\Ext"

-----------------------------------------------------------------------------
(* "--disable-extension", id for each id, in the order of the list.         *)
DisableEach(ids) ==
    [i \in 1..(2 * Len(ids)) |->
        IF i % 2 = 1 THEN "--disable-extension" ELSE ids[i \div 2]]

(* C25: the launch arguments are the workspace path, then "--user-data-dir" *)
(* and userDataDir if it is set, then "--disable-extension" and the id for  *)
(* each entry of disabledExtensionIDs in order, then "--disable-extensions" *)
(* exactly when disableAllExtensions is true, and nothing else.             *)
C25_LaunchArguments ==
    LaunchPlanned =>
      loptions.launchArgs =
          <<lconfig.workspacePath>>
          \o (IF lconfig.userDataDir # Undefined
              THEN <<"--user-data-dir", lconfig.userDataDir[1]>> ELSE <<>>)
          \o (IF lconfig.disabledExtensionIDs # Undefined
              THEN DisableEach(lconfig.disabledExtensionIDs[1]) ELSE <<>>)
          \o (IF lconfig.disableAllExtensions THEN <<"--disable-extensions">> ELSE <<>>)

C25_Witness ==
    /\ LaunchPlanned
    /\ lconfig.userDataDir = Some("/proj/userData")
    /\ lconfig.disabledExtensionIDs = Some(<<"pub.y", "pub.x">>)
    /\ lconfig.disableAllExtensions
    /\ Len(loptions.launchArgs) = 8

-----------------------------------------------------------------------------
(* The packages of the install folders: folder by folder, and within a      *)
(* folder in the order of its listing.                                      *)
RECURSIVE PackagesIn(_)
PackagesIn(folders) ==
    IF folders = <<>> THEN <<>>
    ELSE LET folder == folders[1]
             listing == Readdir(folder)
             kept == SelectSeq(listing, LAMBDA entry : EndsWith(entry, ".vsix"))
         IN [i \in 1..Len(kept) |-> folder \o "/" \o kept[i]]
            \o PackagesIn(SubSeq(folders, 2, Len(folders)))

InstallEach(paths) ==
    [i \in 1..(2 * Len(paths)) |->
        IF i % 2 = 1 THEN "--install-extension" ELSE paths[i \div 2]]

OtherEntries ==
    UNION {{folder \o "/" \o entry :
                entry \in {e \in Range(Readdir(folder)) : ~EndsWith(e, ".vsix")}} :
           folder \in ExtensionFolders}

(* C26: the install invocation receives "--install-extension" and the path  *)
(* for every .vsix entry of every install folder, in the order of the       *)
(* folders and, within a folder, of its listing, then "--force", then       *)
(* "--user-data-dir" and userDataDir if it is set; an entry that does not   *)
(* end in .vsix never appears.                                              *)
C26_InstallArguments ==
    \A i \in SpawnIndices({"install", "retry"}) :
        /\ calls[i].args =
              InstallEach(PackagesIn(IF config.additionalExtensionFolders = Undefined
                                     THEN <<>>
                                     ELSE config.additionalExtensionFolders[1]))
              \o <<"--force">>
              \o (IF config.userDataDir # Undefined
                  THEN <<"--user-data-dir", config.userDataDir[1]>> ELSE <<>>)
        /\ Range(calls[i].args) \cap OtherEntries = {}

C26_Witness ==
    /\ config.additionalExtensionFolders = Some(<<"/ext/two", "/ext/one">>)
    /\ config.userDataDir = Some("/proj/userData")
    /\ \E i \in SpawnIndices({"install"}) :
          calls[i].args = <<"--install-extension", "/ext/two/b.vsix",
                            "--install-extension", "/ext/two/c.vsix",
                            "--install-extension", "/ext/one/a.vsix",
                            "--force", "--user-data-dir", "/proj/userData">>

-----------------------------------------------------------------------------
(* The keys the test executor reads and does not find.                      *)
MissingMochaKeys ==
    IF mpc = "idle" THEN {}
    ELSE (IF menv.cwd = Undefined THEN {ENV_VAR_MOCHA_CWD} ELSE {})
         \cup (IF menv.configPath = Undefined THEN {ENV_VAR_MOCHA_CONFIG_PATH} ELSE {})

(* The keys the coverage wrapper reads and does not find.                   *)
MissingNycKeys ==
    IF npc = "idle" THEN {}
    ELSE (IF nenv.baseTestPath = Undefined THEN {ENV_VAR_BASE_TEST_PATH} ELSE {})
         \cup (IF nenv.nycCwd = Undefined THEN {ENV_VAR_NYC_CWD} ELSE {})
         \cup (IF nenv.nycConfigPath = Undefined THEN {ENV_VAR_NYC_CONFIG_PATH} ELSE {})

RejectedNamingOneOf(outcome, keys) ==
    /\ outcome.status = "rejected"
    /\ \E key \in keys : Includes(outcome.error[1], key)

RejectedNamingAll(outcome, keys) ==
    /\ outcome.status = "rejected"
    /\ \A key \in keys : Includes(outcome.error[1], key)

NoMochaTestExecuted == mctor = Undefined /\ mlog = <<>> /\ mpc \in {"idle", "start", "done"}

NoDelegateInvoked ==
    /\ \A i \in 1..Len(nsteps) : nsteps[i] # "delegate.run"
    /\ npc \in {"idle", "start", "done"}

(* C27: the absence of a required environment variable is fatal inside the  *)
(* host: run() of the test executor rejects when the mocha working          *)
(* directory or the mocha configuration path is absent, run() of the        *)
(* coverage wrapper rejects when the base test path, the nyc working        *)
(* directory or the nyc configuration path is absent; the message of the    *)
(* error names the missing key and no test is executed.                     *)
C27_MissingKeyFatalAndNamed ==
    /\ MissingMochaKeys # {} =>
         /\ NoMochaTestExecuted
         /\ mpc = "done" => RejectedNamingOneOf(mresult, MissingMochaKeys)
    /\ MissingNycKeys # {} =>
         /\ NoDelegateInvoked
         /\ npc = "done" => RejectedNamingOneOf(nresult, MissingNycKeys)

(* C27, in the order of the checks: the test executor rejects with the      *)
(* message that names both of its keys; the coverage wrapper rejects with   *)
(* the message that names the base test path when that key is absent, and   *)
(* with the message that names both keys of nyc when the base test path     *)
(* leads to an object with a run function; when the base test path is set   *)
(* and the module there cannot be loaded or is no such object, the wrapper  *)
(* rejects with the error about that module, which names no key. No test    *)
(* is executed in any of these cases.                                       *)
C27_MissingKeyFatalInCheckOrder ==
    /\ MissingMochaKeys # {} =>
         /\ NoMochaTestExecuted
         /\ mpc = "done" =>
              RejectedNamingAll(mresult, {ENV_VAR_MOCHA_CWD, ENV_VAR_MOCHA_CONFIG_PATH})
    /\ MissingNycKeys # {} =>
         /\ NoDelegateInvoked
         /\ npc = "done" =>
              IF nenv.baseTestPath = Undefined
              THEN RejectedNamingAll(nresult, {ENV_VAR_BASE_TEST_PATH})
              ELSE IF nmodule = "objectWithRun"
              THEN RejectedNamingAll(nresult, {ENV_VAR_NYC_CWD, ENV_VAR_NYC_CONFIG_PATH})
              ELSE /\ nresult.status = "rejected"
                   /\ Includes(nresult.error[1], nenv.baseTestPath[1])
                   /\ \A key \in MissingNycKeys : ~Includes(nresult.error[1], key)

C27_Witness ==
    /\ npc = "done"
    /\ nenv.baseTestPath # Undefined
    /\ nenv.nycCwd = Undefined
    /\ nenv.nycConfigPath # Undefined
    /\ nmodule = "objectWithRun"
    /\ nresult = Rejected(NycEnvError)

C27_WitnessMocha ==
    /\ mpc = "done"
    /\ menv.cwd = Undefined
    /\ menv.configPath # Undefined
    /\ mresult = Rejected(MochaEnvError)

C27_WitnessBaseModule ==
    /\ npc = "done"
    /\ nenv.baseTestPath # Undefined
    /\ nenv.nycConfigPath = Undefined
    /\ nmodule = "string"
    /\ nresult.status = "rejected"

-----------------------------------------------------------------------------
(* run() of the test executor found its environment and loaded the          *)
(* configuration file.                                                      *)
MochaConfigurationLoaded ==
    mpc = "start" /\ menv.cwd # Undefined /\ menv.configPath # Undefined
    /\ mcache # Undefined

RemainingKeys(mochaConfig) ==
    [k \in (DOMAIN mochaConfig) \ {"spec", "require"} |-> mochaConfig[k]]

(* C28: in the test executor the spec of the configuration must be a        *)
(* string, otherwise run() rejects with an error that mentions spec; the    *)
(* keys spec and require are never given to the Mocha constructor, which    *)
(* receives exactly the remaining keys of the configuration; spec is used   *)
(* only as the pattern of the glob rooted at the working directory.         *)
C28_SpecIsThePatternOnly ==
    [][(MochaConfigurationLoaded /\ mpc' # "start") =>
         LET loaded == mcache[1]
             spec == IF "spec" \in DOMAIN loaded THEN loaded["spec"] ELSE JsUndefined
         IN IF spec.type # "string"
            THEN /\ mresult'.status = "rejected"
                 /\ Includes(mresult'.error[1], "spec")
                 /\ mpc' = "done"
                 /\ mctor' = Undefined /\ mpattern' = Undefined /\ mlog' = <<>>
            ELSE mctor' # Undefined =>
                   /\ mctor' = Some(RemainingKeys(loaded))
                   /\ mpattern' = Some(spec.s)
                   /\ mlog'[Len(mlog')] = "glob " \o spec.s \o " in " \o menv.cwd[1]
                   /\ Cardinality({i \in 1..Len(mlog') :
                                      Includes(mlog'[i], spec.s)}) = 1]_vars

C28_Witness ==
    /\ mpc = "globbing"
    /\ mctor = Some([k \in {"color", "timeout"} |->
                        IF k = "timeout" THEN JsNumber(2000) ELSE JsBoolean(FALSE)])
    /\ mpattern = Some("./test/**/*.js")
    /\ \E i \in 1..Len(mlog) : mlog[i] = "require ./setup"

C28_WitnessRejected ==
    /\ mpc = "done"
    /\ mresult = Rejected("spec property in Mocha configuration must be a string. Unexpected value: true")
    /\ mctor = Undefined

-----------------------------------------------------------------------------
(* Absent, a single string, or an array of strings.                         *)
AcceptableRequire(value) ==
    \/ value.type \in {"undefined", "string"}
    \/ /\ value.type = "array"
       /\ \A i \in 1..Len(value.items) : value.items[i].type = "string"

RequireOf(mochaConfig) ==
    IF "require" \in DOMAIN mochaConfig THEN mochaConfig["require"] ELSE JsUndefined

SpecOf(mochaConfig) ==
    IF "spec" \in DOMAIN mochaConfig THEN mochaConfig["spec"] ELSE JsUndefined

(* C29: in the test executor the require of the configuration is accepted   *)
(* only when it is absent, a single string or an array of strings; every    *)
(* other value (a number, a boolean, an object, an array with an entry that *)
(* is no string) makes run() reject with an error. Stated for the           *)
(* configurations whose spec is a string, so that require decides.          *)
C29_OtherRequireRejected ==
    [][(/\ MochaConfigurationLoaded
        /\ mpc' # "start"
        /\ SpecOf(mcache[1]).type = "string"
        /\ ~AcceptableRequire(RequireOf(mcache[1])))
       => mresult'.status = "rejected"]_vars

(* C29, what the code does: an array with an entry that is no string makes  *)
(* run() reject, naming the entry, before the Mocha constructor is called;  *)
(* a value that is neither a string nor an array is skipped and the tests   *)
(* are discovered as if require were absent.                                *)
C29_OnlyArrayEntriesChecked ==
    [][(/\ MochaConfigurationLoaded
        /\ mpc' # "start"
        /\ SpecOf(mcache[1]).type = "string"
        /\ ~AcceptableRequire(RequireOf(mcache[1])))
       => IF RequireOf(mcache[1]).type = "array"
          THEN /\ mresult'.status = "rejected"
               /\ Includes(mresult'.error[1], "require property in Mocha configuration")
               /\ mctor' = Undefined
          ELSE /\ mresult' = Pending
               /\ mpc' = "globbing"
               /\ mctor' = Some(RemainingKeys(mcache[1]))]_vars

-----------------------------------------------------------------------------
(* The base test path is set and the module loaded from it is no plain      *)
(* object, or an object without a run function.                             *)
UnusableBaseModule ==
    /\ npc # "idle"
    /\ nenv.baseTestPath # Undefined
    /\ nmodule \in {"string", "objectWithoutRun", "objectWithStringRun"}

(* C30: run() of the coverage wrapper rejects, with an error whose message  *)
(* includes the base test path, whenever the module loaded from that path   *)
(* is not a plain object or has no callable run member; the delegate is     *)
(* never invoked then.                                                      *)
C30_UnusableBaseModuleRejected ==
    UnusableBaseModule =>
        /\ \A i \in 1..Len(nsteps) : nsteps[i] # "delegate.run"
        /\ nsteps = <<>>
        /\ npc \in {"start", "done"}
        /\ npc = "done" =>
             /\ nresult.status = "rejected"
             /\ Includes(nresult.error[1], nenv.baseTestPath[1])

C30_Witness ==
    /\ npc = "done"
    /\ nenv.baseTestPath = Some("/cli/mocha-tests")
    /\ nenv.nycCwd # Undefined /\ nenv.nycConfigPath # Undefined
    /\ nconfig # Undefined
    /\ nmodule = "objectWithStringRun"
    /\ nresult = Rejected("/cli/mocha-tests must export a \"run\" function")

C30_WitnessNotAnObject ==
    /\ npc = "done"
    /\ nmodule = "string"
    /\ nresult = Rejected("The import result of /cli/mocha-tests must be an object")

-----------------------------------------------------------------------------
(* Reading or resolving the configuration threw: runVSCodeTests was never   *)
(* entered.                                                                 *)
ConfigurationFailed ==
    pc \in {"exit", "exited"} /\ CallIndices("downloadAndUnzipVSCode") = {}

(* A step of runVSCodeTests threw or rejected; a failed unlink is caught    *)
(* and logged.                                                              *)
RunStepFailed ==
    \E i \in 1..Len(calls) : calls[i].error # Undefined /\ calls[i].fn # "unlink"

(* C31: runTestsFromCommandLine ends the process with exit code 0 when      *)
(* reading the configuration, resolving it and the test run all succeed,    *)
(* and with exit code 1 when any of them fails; every run ends with an      *)
(* exit code set.                                                           *)
C31_ExitCodeReflectsOutcome ==
    /\ [](pc = "exited" =>
            /\ exitCode \in {Some(0), Some(1)}
            /\ exitCode = Some(1) <=> (ConfigurationFailed \/ RunStepFailed)
            /\ exitCode = Some(0) <=> result = "resolved")
    /\ [](pc # "exited" => exitCode = Undefined)
    /\ <>(pc = "exited" /\ exitCode # Undefined)

C31_Witness ==
    /\ pc = "exited"
    /\ exitCode = Some(1)
    /\ hostState = "exitedFailed"
    /\ result = "rejected"

C31_WitnessSuccess ==
    /\ pc = "exited"
    /\ exitCode = Some(0)
    /\ hostState = "exitedOk"

C31_WitnessConfiguration ==
    /\ pc = "exited"
    /\ exitCode = Some(1)
    /\ calls = <<>>
    /\ thrown = Some("Configuration error: userDataDir must be a string")

-----------------------------------------------------------------------------
FileCalls == {i \in 1..Len(calls) : calls[i].fn \in {"mkdirs", "writeJson", "unlink"}}

(* C32: runVSCodeTests creates, overwrites or deletes the file at           *)
(* workspacePath only when config.initWorkspace is true: with initWorkspace *)
(* false, whatever the outcome of the run, a file that existed before       *)
(* exists with the same content and a file that did not exist is never      *)
(* created; unlink is attempted at most once per run, and only on the path  *)
(* this run wrote.                                                          *)
C32_WorkspaceFileTouchedOnlyOnInit ==
    /\ ~config.initWorkspace =>
          /\ wsFile = wsFileBefore
          /\ FileCalls = {}
    /\ Cardinality(CallIndices("unlink")) <= 1
    /\ \A u \in CallIndices("unlink") :
          /\ config.initWorkspace
          /\ calls[u].arg = config.workspacePath
          /\ \E w \in CallIndices("writeJson") :
                w < u /\ calls[w].error = Undefined /\ calls[w].arg = calls[u].arg

C32_Witness ==
    /\ pc = "exited"
    /\ ~config.initWorkspace
    /\ wsFileBefore = OtherContent
    /\ wsFile = OtherContent
    /\ hostState = "exitedFailed"

C32_WitnessAbsent ==
    /\ pc = "exited"
    /\ ~config.initWorkspace
    /\ wsFileBefore = Absent
    /\ hostState = "exitedOk"

C32_WitnessUnlink ==
    /\ pc = "exited"
    /\ config.initWorkspace
    /\ Cardinality(CallIndices("unlink")) = 1
    /\ wsFileBefore = OtherContent
    /\ wsFile = Absent

-----------------------------------------------------------------------------
StartsWith(text, prefix) ==
    Len(text) >= Len(prefix) /\ SubSeq(text, 1, Len(prefix)) = prefix

LogIndices(prefix) == {i \in 1..Len(mlog) : StartsWith(mlog[i], prefix)}

(* The strings of a require value: the string itself, or the entries of     *)
(* the array.                                                               *)
RequireList(value) ==
    IF value.type = "string" THEN <<value.s>>
    ELSE IF value.type = "array"
    THEN [i \in 1..Len(value.items) |-> value.items[i].s]
    ELSE <<>>

(* C33: in the test executor every entry of the require of the              *)
(* configuration is loaded, in the order of the list, before the discovery  *)
(* of the test files starts and before any test file is added to the        *)
(* runner; the test files are added in the order the discovery returned     *)
(* them, and the suite is started only after all of them were added.        *)
C33_RequireThenDiscoverThenAddThenRun ==
    /\ [][(MochaConfigurationLoaded /\ mpc' = "globbing") =>
            LET list == RequireList(RequireOf(mcache[1]))
            IN /\ Len(mlog') = Len(list) + 2
               /\ \A i \in 1..Len(list) : mlog'[i] = "require " \o list[i]
               /\ mlog'[Len(list) + 1] = "new Mocha"
               /\ StartsWith(mlog'[Len(list) + 2], "glob ")]_vars
    /\ [](\A a \in LogIndices("addFile ") :
             /\ \A r \in LogIndices("require ") : r < a
             /\ \A g \in LogIndices("glob ") : g < a
             /\ \A s \in LogIndices("run") : a < s)
    /\ [](LogIndices("run") # {} =>
             LET first == CHOOSE g \in LogIndices("glob ") : TRUE
             IN /\ Cardinality(LogIndices("glob ")) = 1
                /\ Len(mlog) = first + Len(mglob.files) + 1
                /\ \A k \in 1..Len(mglob.files) :
                      mlog[first + k] = "addFile " \o menv.cwd[1] \o "/" \o mglob.files[k]
                /\ mlog[Len(mlog)] = "run")

C33_Witness ==
    /\ mpc = "done"
    /\ mlog = <<"require ts-node/register", "require ./setup", "new Mocha",
                "glob ./test/**/*.js in /proj",
                "addFile /proj/test/inner/b.test.js", "addFile /proj/test/a.test.js",
                "run">>
    /\ mresult = Resolved

-----------------------------------------------------------------------------
(* The all flag of the loaded configuration is exactly true.                *)
AllIsExactlyTrue ==
    /\ nconfig # Undefined
    /\ "all" \in DOMAIN nconfig[1]
    /\ nconfig[1]["all"] = [type |-> "boolean", b |-> TRUE]

(* C34: in every run of the coverage wrapper that reaches the delegate the  *)
(* steps are, in this order: construct the engine, reset, register all      *)
(* files if and only if the all flag of the configuration is exactly true,  *)
(* enable the hook, invoke run of the delegate; the delegate is never       *)
(* invoked before the hook is enabled, and the files are never registered   *)
(* when all is false or absent.                                             *)
C34_SetupOrderBeforeDelegate ==
    /\ DelegateInvoked =>
         LET d == CHOOSE i \in StepIndices("delegate.run") : TRUE
         IN /\ Cardinality(StepIndices("delegate.run")) = 1
            /\ SubSeq(nsteps, 1, d) =
                 IF AllIsExactlyTrue
                 THEN <<"new Nyc", "reset", "addAllFiles", "wrap", "delegate.run">>
                 ELSE <<"new Nyc", "reset", "wrap", "delegate.run">>
    /\ \A d \in StepIndices("delegate.run") : \E w \in StepIndices("wrap") : w < d
    /\ StepIndices("addAllFiles") # {} => AllIsExactlyTrue

C34_Witness ==
    /\ npc = "done"
    /\ AllIsExactlyTrue
    /\ nsteps = <<"new Nyc", "reset", "addAllFiles", "wrap", "delegate.run",
                  "writeProcessIndex", "writeCoverageFile">>

C34_WitnessNotExactlyTrue ==
    /\ npc = "done"
    /\ nconfig # Undefined
    /\ "all" \in DOMAIN nconfig[1]
    /\ nconfig[1]["all"] = JsString("true")
    /\ nsteps = <<"new Nyc", "reset", "wrap", "delegate.run",
                  "writeProcessIndex", "writeCoverageFile">>

-----------------------------------------------------------------------------
(* The discovery was made and matched no file.                              *)
DiscoveredNothing ==
    /\ mpc \in {"running", "done"}
    /\ LogIndices("glob ") # {}
    /\ mglob.err = Undefined
    /\ mglob.files = <<>>

C35_WitnessNotAFolder ==
    /\ DiscoveredNothing
    /\ mpc = "done"
    /\ menv.cwd = Some(NotAFolder)
    /\ mresult = Resolved

-----------------------------------------------------------------------------
FailedCalls(fn) == {i \in CallIndices(fn) : calls[i].error # Undefined}

(* The download of the host failed, or the scan of the install folders      *)
(* found a folder that is missing or holds no package.                      *)
AcquisitionOrScanFailed ==
    \/ FailedCalls("downloadAndUnzipVSCode") # {}
    \/ FailedCalls("getInstallArgsFromInstallationFolders") # {}

(* C36: if the download of the host fails, or the provisioning fails        *)
(* because an install folder is missing or holds no .vsix file, then no     *)
(* subprocess of the extension manager is spawned in that run (the          *)
(* uninstall invocation included), the workspace descriptor is never        *)
(* written, the host is never started and no deletion is attempted.         *)
C36_EarlyFailureTouchesNothing ==
    AcquisitionOrScanFailed =>
        /\ AllSpawns = {}
        /\ FileCalls = {}
        /\ wsFile = wsFileBefore
        /\ workspaceFileToDelete = Undefined
        /\ CallIndices("runTests") = {}
        /\ hostState = "notStarted"
        /\ hostExtensions \in {{}, {"pub.a"}}
        /\ pc \in {"finally", "exit", "exited"}
        /\ pc = "exited" => exitCode = Some(1)

C36_Witness ==
    /\ pc = "exited"
    /\ config.initWorkspace
    /\ config.uninstallExtensionIDs = Some(<<"pub.a">>)
    /\ config.additionalExtensionFolders = Some(<<"/ext/one", "/ext/novsix">>)
    /\ FailedCalls("getInstallArgsFromInstallationFolders") # {}

C36_WitnessDownload ==
    /\ pc = "exited"
    /\ config.initWorkspace
    /\ FailedCalls("downloadAndUnzipVSCode") # {}

-----------------------------------------------------------------------------
(* A step of the coverage wrapper before the delegate fails: a key of the   *)
(* environment is missing, the base test module cannot be used, the         *)
(* configuration of nyc cannot be loaded, or the construction of the        *)
(* engine, its reset, the registration of all files or the hook throws.     *)
FailsBeforeDelegate ==
    /\ npc # "idle"
    /\ \/ MissingNycKeys # {}
       \/ nmodule # "objectWithRun"
       \/ nconfig = Undefined
       \/ nfail \in {Some("new Nyc"), Some("reset"), Some("wrap")}
       \/ nfail = Some("addAllFiles") /\ AllIsExactlyTrue

CoverageWriteAttempted ==
    StepIndices("writeProcessIndex") \cup StepIndices("writeCoverageFile") # {}

(* C37: if a step of the coverage wrapper before the delegate fails, run    *)
(* of the delegate is never invoked and neither the process coverage index  *)
(* nor the coverage file is written; the coverage files are written only    *)
(* in the runs where the delegate was invoked.                              *)
C37_NoCoverageWithoutDelegate ==
    /\ FailsBeforeDelegate =>
          /\ ~DelegateInvoked
          /\ ~CoverageWriteAttempted
          /\ nwritten = {}
          /\ npc \notin {"setupDone", "delegateRunning", "writeProcessIndex"}
          /\ npc = "done" => nresult.status = "rejected"
    /\ (nwritten # {} \/ CoverageWriteAttempted) =>
          /\ DelegateInvoked
          /\ \A w \in StepIndices("writeProcessIndex") \cup StepIndices("writeCoverageFile") :
                \E d \in StepIndices("delegate.run") : d < w

C37_Witness ==
    /\ npc = "done"
    /\ nfail = Some("wrap")
    /\ MissingNycKeys = {}
    /\ nmodule = "objectWithRun"
    /\ nsteps = <<"new Nyc", "reset", "addAllFiles", "wrap">>
    /\ nresult = Rejected("nyc wrap failed")
    /\ nwritten = {}

C37_WitnessWritten ==
    /\ npc = "done"
    /\ nwritten = {"processIndex", "coverageFile"}
    /\ DelegateInvoked

-----------------------------------------------------------------------------
SecondRunSettled == mpc = "done" /\ mfirst # Undefined

(* C38: the test executor only reads its configuration: a second run() in   *)
(* the same process, with the same environment and the same configuration   *)
(* module, observes the same spec pattern and the same require list as the  *)
(* first and reaches the same outcome.                                      *)
C38_SecondRunSameAsFirst ==
    SecondRunSettled =>
        /\ mpattern = mfirst[1].pattern
        /\ mlog = mfirst[1].log
        /\ mresult = mfirst[1].result

(* The first run() got past handleSpec: it reached glob, or it was stopped  *)
(* by handleRequire.                                                        *)
FirstRunDeletedSpec ==
    LET first == mfirst[1]
    IN \/ first.pattern # Undefined
       \/ /\ first.result.status = "rejected"
          /\ \/ StartsWith(first.result.error[1], "require property")
             \/ /\ StartsWith(first.result.error[1], "Cannot find module '")
                /\ first.result.error[1] # "Cannot find module '" \o menv.configPath[1] \o "'"

(* C38, what the code does: a run() that got past handleSpec has deleted    *)
(* spec from the cached object, so the second run() rejects for the missing *)
(* spec before it loads a module or constructs Mocha; a run() that failed   *)
(* before handleSpec deleted anything is repeated as it was.                *)
C38_SecondRunFindsSpecDeleted ==
    SecondRunSettled =>
        IF FirstRunDeletedSpec
        THEN /\ mresult = Rejected("spec property in Mocha configuration must be a string. Unexpected value: undefined")
             /\ mlog = <<>>
             /\ mctor = Undefined
             /\ mpattern = Undefined
        ELSE /\ mresult = mfirst[1].result
             /\ mlog = mfirst[1].log
             /\ mpattern = mfirst[1].pattern

====
